---------------------------- MODULE Spec2Model ----------------------------
(***************************************************************************)
(* Model of the consolidation engine of src/src/lib/gemini.ts: the          *)
(* similarity scorer, the value normaliser, the primary-key detectors, the  *)
(* entity merger (createHorizontalMerge) and the orchestrators              *)
(* createIntelligentFallbackAnalysis and analyzeExcelData.                  *)
(*                                                                         *)
(* JavaScript strings are sequences of one-character strings, so that the  *)
(* character-level code (regular expressions, toLowerCase, includes, trim,  *)
(* edit distance, parseFloat) is computed rather than assumed.  JavaScript *)
(* values are records [t, s, n]: t is the type tag, s the characters of a  *)
(* string, n the value of a number or boolean.  Objects are sequences of   *)
(* [k, v] entries in insertion order, a Map is a sequence of [id, ent]     *)
(* entries in insertion order.                                             *)
(***************************************************************************)
EXTENDS Integers, Sequences, FiniteSets, TLC

-----------------------------------------------------------------------------
(* Characters and strings                                                   *)

UpperChars == <<"A","B","C","D","E","F","G","H","I","J","K","L","M",
                "N","O","P","Q","R","S","T","U","V","W","X","Y","Z">>

LowerChars == <<"a","b","c","d","e","f","g","h","i","j","k","l","m",
                "n","o","p","q","r","s","t","u","v","w","x","y","z">>

DigitChars == <<"0","1","2","3","4","5","6","7","8","9">>

Range(seq) == {seq[i] : i \in 1..Len(seq)}

UpperSet == Range(UpperChars)

LowerSet == Range(LowerChars)

DigitSet == Range(DigitChars)

\* \s of the regular expressions, over the characters the model uses.
IsSpace(c) == c = " "

\* [a-zA-Z0-9], which after the removal of special characters is also \w.
IsAlnum(c) == c \in UpperSet \/ c \in LowerSet \/ c \in DigitSet

ToLowerChar(c) ==
  IF c \in UpperSet
  THEN LowerChars[CHOOSE i \in 1..26 : UpperChars[i] = c]
  ELSE c

ToUpperChar(c) ==
  IF c \in LowerSet
  THEN UpperChars[CHOOSE i \in 1..26 : LowerChars[i] = c]
  ELSE c

\* String.prototype.toLowerCase
toLowerCase(str) == [i \in 1..Len(str) |-> ToLowerChar(str[i])]

\* String.prototype.includes
includes(str, sub) ==
  \E i \in 0..(Len(str) - Len(sub)) :
    \A j \in 1..Len(sub) : str[i + j] = sub[j]

RECURSIVE TrimLeft(_)
TrimLeft(str) ==
  IF str # <<>> /\ IsSpace(Head(str)) THEN TrimLeft(Tail(str)) ELSE str

RECURSIVE TrimRight(_)
TrimRight(str) ==
  IF str # <<>> /\ IsSpace(str[Len(str)])
  THEN TrimRight(SubSeq(str, 1, Len(str) - 1))
  ELSE str

\* String.prototype.trim
trim(str) == TrimRight(TrimLeft(str))

\* Array.prototype.join of strings with a one-string separator.
RECURSIVE join(_, _)
join(parts, sep) ==
  IF parts = <<>> THEN <<>>
  ELSE IF Len(parts) = 1 THEN parts[1]
  ELSE parts[1] \o sep \o join(Tail(parts), sep)

DigitValue(c) == (CHOOSE i \in 1..10 : DigitChars[i] = c) - 1

RECURSIVE NatToStr(_)
NatToStr(n) ==
  IF n < 10 THEN <<DigitChars[n + 1]>>
  ELSE NatToStr(n \div 10) \o <<DigitChars[(n % 10) + 1]>>

\* Number.prototype.toString of an integer.
IntToStr(n) == IF n < 0 THEN <<"-">> \o NatToStr(-n) ELSE NatToStr(n)

\* The longest prefix of digits of str.
RECURSIVE DigitPrefix(_)
DigitPrefix(str) ==
  IF str # <<>> /\ Head(str) \in DigitSet
  THEN <<Head(str)>> \o DigitPrefix(Tail(str))
  ELSE <<>>

RECURSIVE DigitsToNat(_, _)
DigitsToNat(str, acc) ==
  IF str = <<>> THEN acc
  ELSE DigitsToNat(Tail(str), 10 * acc + DigitValue(Head(str)))


-----------------------------------------------------------------------------
(* JavaScript values                                                        *)

Undefined == [t |-> "undefined", s |-> <<>>, n |-> 0]

Null == [t |-> "null", s |-> <<>>, n |-> 0]

NaN == [t |-> "nan", s |-> <<>>, n |-> 0]

Str(str) == [t |-> "string", s |-> str, n |-> 0]

Num(n) == [t |-> "number", s |-> <<>>, n |-> n]

Bool(b) == [t |-> "boolean", s |-> <<>>, n |-> IF b THEN 1 ELSE 0]

\* A number of 10^21 or more, kept as the exponent form that String gives it,
\* such as 1e+21.
Big(str) == [t |-> "big", s |-> str, n |-> 0]

\* typeof v
typeof(v) == IF v.t = "nan" \/ v.t = "big" THEN "number"
             ELSE IF v.t = "null" THEN "object"
             ELSE v.t

\* a === b: NaN is not equal to itself.
StrictEq(a, b) == a = b /\ a.t # "nan"

\* The truthiness of v, as in `primaryKey && cleanRow[primaryKey]`.
Truthy(v) ==
  CASE v.t = "string" -> v.s # <<>>
    [] v.t = "number" -> v.n # 0
    [] v.t = "boolean" -> v.n = 1
    [] v.t = "big" -> TRUE
    [] OTHER -> FALSE

\* v === null || v === undefined || v === ''
IsEmptyValue(v) == v.t = "null" \/ v.t = "undefined" \/ (v.t = "string" /\ v.s = <<>>)

\* String(v)
String(v) ==
  CASE v.t = "string" -> v.s
    [] v.t = "number" -> IntToStr(v.n)
    [] v.t = "boolean" -> IF v.n = 1 THEN <<"t","r","u","e">> ELSE <<"f","a","l","s","e">>
    [] v.t = "nan" -> <<"N","a","N">>
    [] v.t = "big" -> v.s
    [] v.t = "null" -> <<"n","u","l","l">>
    [] OTHER -> <<"u","n","d","e","f","i","n","e","d">>

\* Objects: sequences of [k, v] entries in insertion order, keys distinct.
Keys(obj) == [i \in 1..Len(obj) |-> obj[i].k]

HasKey(obj, key) == \E i \in 1..Len(obj) : obj[i].k = key

\* obj[key]
Get(obj, key) ==
  IF HasKey(obj, key)
  THEN obj[CHOOSE i \in 1..Len(obj) : obj[i].k = key].v
  ELSE Undefined

\* obj[key] = val: an existing key keeps its place, a new key is appended.
Put(obj, key, val) ==
  IF HasKey(obj, key)
  THEN [i \in 1..Len(obj) |-> IF obj[i].k = key THEN [k |-> key, v |-> val] ELSE obj[i]]
  ELSE Append(obj, [k |-> key, v |-> val])

-----------------------------------------------------------------------------
(* Value normaliser and column names                                        *)

RECURSIVE FilterChars(_, _)
FilterChars(str, drop) ==
  IF str = <<>> THEN <<>>
  ELSE IF Head(str) \in drop THEN FilterChars(Tail(str), drop)
  ELSE <<Head(str)>> \o FilterChars(Tail(str), drop)

\* str is one digit from 1 to 9 followed by 21 or more zeros.
IsDigitAndZeros(str) ==
  /\ Len(str) >= 22
  /\ str[1] \in DigitSet \ {"0"}
  /\ \A i \in 2..Len(str) : str[i] = "0"

\* str is the exponent form of such a number: a digit, e+, and an exponent
\* of two digits that is 21 or more.
IsExponentForm(str) ==
  /\ Len(str) = 5
  /\ str[1] \in DigitSet \ {"0"}
  /\ str[2] = "e" /\ str[3] = "+"
  /\ str[4] \in DigitSet /\ str[5] \in DigitSet
  /\ DigitsToNat(SubSeq(str, 4, 5), 0) >= 21

\* The number that a prefix of digits denotes: an integer below 10^9, or one
\* digit followed by 21 or more zeros.
DigitsToNumber(d) ==
  IF IsDigitAndZeros(d) THEN Big(<<d[1], "e", "+">> \o NatToStr(Len(d) - 1))
  ELSE Num(DigitsToNat(d, 0))

\* parseInt(str): leading blanks, a sign, then the digit prefix; NaN when
\* there is no digit.  The exponent of 1e+21 is not read: the result is 1.
parseInt(str) ==
  LET t == TrimLeft(str)
      neg == t # <<>> /\ Head(t) = "-"
      u == IF t # <<>> /\ Head(t) \in {"-", "+"} THEN Tail(t) ELSE t
      d == DigitPrefix(u)
  IN IF d = <<>> THEN NaN
     ELSE IF neg /\ ~IsDigitAndZeros(d) THEN Num(-DigitsToNat(d, 0))
     ELSE DigitsToNumber(d)

\* parseFloat(str), for strings that carry no fraction and no "Infinity":
\* as parseInt, but an exponent is read.
parseFloat(str) ==
  IF IsExponentForm(TrimLeft(str)) THEN Big(TrimLeft(str)) ELSE parseInt(str)

\* str has the form YYYY-MM-DD with a month of 1..12 and a day of 1..28.
IsIsoDate(str) ==
  /\ Len(str) = 10
  /\ \A i \in {1, 2, 3, 4, 6, 7, 9, 10} : str[i] \in DigitSet
  /\ str[5] = "-" /\ str[8] = "-"
  /\ DigitsToNat(SubSeq(str, 6, 7), 0) \in 1..12
  /\ DigitsToNat(SubSeq(str, 9, 10), 0) \in 1..28

\* new Date(value).toISOString().split('T')[0], or Undefined for an invalid
\* date.  A date-only ISO string is UTC midnight of that day; a number or a
\* boolean is milliseconds from the epoch (the model's numbers lie within
\* one day of it); a string without any digit is no date.
DateToIso(value) ==
  CASE value.t = "string" /\ IsIsoDate(value.s) -> Str(value.s)
    [] value.t = "number" /\ value.n >= 0 -> Str(<<"1","9","7","0","-","0","1","-","0","1">>)
    [] value.t = "number" /\ value.n < 0 -> Str(<<"1","9","6","9","-","1","2","-","3","1">>)
    [] value.t = "boolean" -> Str(<<"1","9","7","0","-","0","1","-","0","1">>)
    [] OTHER -> Undefined

IsDateColumn(colLower) ==
  \/ includes(colLower, <<"d","a","t","e">>)
  \/ includes(colLower, <<"t","i","m","e">>)
  \/ includes(colLower, <<"c","r","e","a","t","e","d">>)
  \/ includes(colLower, <<"u","p","d","a","t","e","d">>)

IsAmountColumn(colLower) ==
  \/ includes(colLower, <<"a","m","o","u","n","t">>)
  \/ includes(colLower, <<"p","r","i","c","e">>)
  \/ includes(colLower, <<"c","o","s","t">>)
  \/ includes(colLower, <<"t","o","t","a","l">>)

IsQuantityColumn(colLower) ==
  \/ includes(colLower, <<"q","u","a","n","t","i","t","y">>)
  \/ includes(colLower, <<"q","t","y">>)
  \/ includes(colLower, <<"c","o","u","n","t">>)

normalizeBusinessValue(value, columnName) ==
  LET colLower == toLowerCase(columnName) IN
  IF IsEmptyValue(value) THEN Null
  ELSE IF IsDateColumn(colLower)
  THEN LET date == DateToIso(value) IN
       IF date # Undefined THEN date ELSE value
  ELSE IF IsAmountColumn(colLower)
  THEN LET num == parseFloat(FilterChars(String(value), {"$", ",", " "})) IN
       IF num # NaN THEN num ELSE value
  ELSE IF IsQuantityColumn(colLower)
  THEN LET num == parseInt(String(value)) IN
       IF num # NaN THEN num ELSE value
  ELSE IF value.t = "string" THEN Str(trim(value.s))
  ELSE value

\* .replace(/\s+/g, ' ')
RECURSIVE CollapseSpaces(_)
CollapseSpaces(str) ==
  IF str = <<>> THEN <<>>
  ELSE IF IsSpace(Head(str))
  THEN <<" ">> \o CollapseSpaces(TrimLeft(str))
  ELSE <<Head(str)>> \o CollapseSpaces(Tail(str))

\* .replace(/\b\w/g, l => l.toUpperCase()) on a string of [a-zA-Z0-9 ]
TitleCase(str) ==
  [i \in 1..Len(str) |->
     IF IsAlnum(str[i]) /\ (i = 1 \/ ~IsAlnum(str[i - 1]))
     THEN ToUpperChar(str[i]) ELSE str[i]]

\* .replace(/[^a-zA-Z0-9\s]/g, '')
RECURSIVE RemoveSpecial(_)
RemoveSpecial(str) ==
  IF str = <<>> THEN <<>>
  ELSE IF IsAlnum(Head(str)) \/ IsSpace(Head(str))
  THEN <<Head(str)>> \o RemoveSpecial(Tail(str))
  ELSE RemoveSpecial(Tail(str))

createBusinessColumnName(columnName) ==
  TitleCase(trim(CollapseSpaces(RemoveSpecial(columnName))))

-----------------------------------------------------------------------------
(* Similarity scorer.  A score is the fraction num/den, den > 0.             *)

Frac(num, den) == [num |-> num, den |-> den]

FracGt(a, b) == a.num * b.den > b.num * a.den

\* Math.max of two fractions
FracMax(a, b) == IF FracGt(b, a) THEN b ELSE a

Min3(a, b, c) == IF a <= b /\ a <= c THEN a ELSE IF b <= c THEN b ELSE c

synonyms ==
  << << <<"n","a","m","e">>, <<"t","i","t","l","e">>, <<"l","a","b","e","l">> >>,
     << <<"i","d">>, <<"i","d","e","n","t","i","f","i","e","r">>, <<"k","e","y">>,
        <<"c","o","d","e">> >>,
     << <<"c","u","s","t","o","m","e","r">>, <<"c","l","i","e","n","t">>,
        <<"u","s","e","r">> >>,
     << <<"a","m","o","u","n","t">>, <<"p","r","i","c","e">>, <<"c","o","s","t">>,
        <<"v","a","l","u","e">> >>,
     << <<"d","a","t","e">>, <<"t","i","m","e">>,
        <<"t","i","m","e","s","t","a","m","p">> >>,
     << <<"p","h","o","n","e">>, <<"m","o","b","i","l","e">>,
        <<"t","e","l","e","p","h","o","n","e">> >>,
     << <<"e","m","a","i","l">>, <<"m","a","i","l">>, <<"e","-","m","a","i","l">> >>,
     << <<"a","d","d","r","e","s","s">>, <<"l","o","c","a","t","i","o","n">>,
        <<"a","d","d","r">> >> >>

\* One row of the matrix: matrix[i] from matrix[i - 1] (prev) and the
\* character c2 = str2.charAt(i - 1).  cur holds matrix[i][0 .. Len(cur) - 1].
RECURSIVE LevRow(_, _, _, _)
LevRow(str1, c2, prev, cur) ==
  LET j == Len(cur) IN
  IF j > Len(str1) THEN cur
  ELSE LevRow(str1, c2, prev,
              Append(cur, IF c2 = str1[j] THEN prev[j]
                          ELSE Min3(prev[j] + 1, cur[j] + 1, prev[j + 1] + 1)))

\* The rows after prev = matrix[i - 1], whose first entry is i - 1.
RECURSIVE LevRows(_, _, _)
LevRows(str1, str2, prev) ==
  LET i == prev[1] + 1 IN
  IF i > Len(str2) THEN prev
  ELSE LevRows(str1, str2, LevRow(str1, str2[i], prev, <<i>>))

levenshteinDistance(str1, str2) ==
  LevRows(str1, str2, [j \in 1..(Len(str1) + 1) |-> j - 1])[Len(str1) + 1]

\* A whole string is looked up in the table: group.includes(str1).
InSynonymGroup(str1, str2) ==
  \E g \in 1..Len(synonyms) :
    str1 \in Range(synonyms[g]) /\ str2 \in Range(synonyms[g])

\* calculateSimilarity with a slip: the distance is taken relative to the
\* first string instead of the longer one.
calculateSimilarityOfFirst(str1, str2) ==
  IF InSynonymGroup(str1, str2) THEN Frac(1, 1)
  ELSE IF Len(str1) = 0 /\ Len(str2) = 0 THEN Frac(1, 1)
  ELSE Frac(Len(str1) - levenshteinDistance(str1, str2), Len(str1))

calculateSimilarity(str1, str2) ==
  IF InSynonymGroup(str1, str2) THEN Frac(1, 1)
  ELSE LET longer == IF Len(str1) > Len(str2) THEN str1 ELSE str2
           shorter == IF Len(str1) > Len(str2) THEN str2 ELSE str1
       IN IF Len(longer) = 0 THEN Frac(1, 1)
          ELSE Frac(Len(longer) - levenshteinDistance(longer, shorter), Len(longer))

\* The score that findSimilarColumns compares with 0.6.
GroupingSimilarity(col1, col2) == calculateSimilarity(toLowerCase(col1), toLowerCase(col2))

\* > 0.6
SimilarEnough(col1, col2) == FracGt(GroupingSimilarity(col1, col2), Frac(6, 10))

\* columns.filter(col2 => col1 !== col2 && similarity > 0.6)
RECURSIVE SimilarTo(_, _)
SimilarTo(columns, col1) ==
  IF columns = <<>> THEN <<>>
  ELSE (IF Head(columns) # col1 /\ SimilarEnough(col1, Head(columns))
        THEN <<Head(columns)>> ELSE <<>>)
       \o SimilarTo(Tail(columns), col1)

\* The group map, as entries [k |-> col1, v |-> similar] in insertion order.
RECURSIVE SimilarGroupsFrom(_, _)
SimilarGroupsFrom(all, rest) ==
  IF rest = <<>> THEN <<>>
  ELSE LET similar == SimilarTo(all, Head(rest))
       IN (IF Len(similar) > 0 THEN <<[k |-> Head(rest), v |-> similar]>> ELSE <<>>)
          \o SimilarGroupsFrom(all, Tail(rest))

findSimilarColumns(columns) == SimilarGroupsFrom(columns, columns)

-----------------------------------------------------------------------------
(* Primary-key detectors.  A sheet is [fileName, data], data the sequence   *)
(* of its rows; a row is an object.                                         *)

\* Object.keys(sheet.data[0])
HeadersOf(sheet) == Keys(sheet.data[1])

\* sheet.data.map(row => row[header])
ColumnOf(sheet, header) == [i \in 1..Len(sheet.data) |-> Get(sheet.data[i], header)]

\* .filter(v => v !== null && v !== undefined && v !== '')
RECURSIVE NonEmptyValues(_)
NonEmptyValues(vals) ==
  IF vals = <<>> THEN <<>>
  ELSE (IF IsEmptyValue(Head(vals)) THEN <<>> ELSE <<Head(vals)>>)
       \o NonEmptyValues(Tail(vals))

\* The naming score of detectSmartPrimaryKey.
SmartNameScore(lowerHeader) ==
    (IF includes(lowerHeader, <<"i","d">>) THEN 15 ELSE 0)
  + (IF includes(lowerHeader, <<"k","e","y">>) THEN 12 ELSE 0)
  + (IF includes(lowerHeader, <<"c","o","d","e">>) THEN 10 ELSE 0)
  + (IF includes(lowerHeader, <<"n","a","m","e">>)
        /\ ~includes(lowerHeader, <<"f","i","l","e","n","a","m","e">>) THEN 8 ELSE 0)
  + (IF includes(lowerHeader, <<"r","e","f","e","r","e","n","c","e">>)
        \/ includes(lowerHeader, <<"r","e","f">>) THEN 7 ELSE 0)
  + (IF includes(lowerHeader, <<"n","u","m","b","e","r">>) THEN 5 ELSE 0)

\* values.length > 0 ? uniqueValues.size / values.length : 0
SmartUniqueness(sheet, header) ==
  LET vals == NonEmptyValues(ColumnOf(sheet, header))
  IN IF Len(vals) > 0 THEN Frac(Cardinality(Range(vals)), Len(vals)) ELSE Frac(0, 1)

\* candidateKeys.set(normalizedHeader, {max score, max uniqueness}); the Map
\* is a sequence of [k, score, uniqueness] in insertion order.
SmartCandidateSet(cands, sheet, header) ==
  LET key == createBusinessColumnName(header)
      sc == SmartNameScore(toLowerCase(header))
      un == SmartUniqueness(sheet, header)
      has == \E i \in 1..Len(cands) : cands[i].k = key
      upd(old) == [k |-> key,
                   score |-> IF old.score > sc THEN old.score ELSE sc,
                   uniqueness |-> FracMax(old.uniqueness, un)]
  IN IF has
     THEN [i \in 1..Len(cands) |-> IF cands[i].k = key THEN upd(cands[i]) ELSE cands[i]]
     ELSE Append(cands, upd([score |-> 0, uniqueness |-> Frac(0, 1)]))

RECURSIVE SmartCandidatesOfSheet(_, _, _)
SmartCandidatesOfSheet(cands, sheet, hdrs) ==
  IF hdrs = <<>> THEN cands
  ELSE SmartCandidatesOfSheet(SmartCandidateSet(cands, sheet, Head(hdrs)), sheet, Tail(hdrs))

RECURSIVE SmartCandidates(_, _)
SmartCandidates(cands, sheets) ==
  IF sheets = <<>> THEN cands
  ELSE IF Len(Head(sheets).data) = 0 THEN SmartCandidates(cands, Tail(sheets))
  ELSE SmartCandidates(
         SmartCandidatesOfSheet(cands, Head(sheets), HeadersOf(Head(sheets))),
         Tail(sheets))

\* score + uniqueness * 20, as a fraction
SmartTotalScore(cand) ==
  Frac(cand.score * cand.uniqueness.den + 20 * cand.uniqueness.num, cand.uniqueness.den)

\* SmartBest with a slip: a candidate of the same total score replaces the
\* best one.
RECURSIVE SmartBestLast(_, _)
SmartBestLast(cands, best) ==
  IF cands = <<>> THEN best.key
  ELSE LET c == Head(cands) IN
       IF ~FracGt(best.score, SmartTotalScore(c)) /\ FracGt(c.uniqueness, Frac(7, 10))
       THEN SmartBestLast(Tail(cands), [key |-> Str(c.k), score |-> SmartTotalScore(c)])
       ELSE SmartBestLast(Tail(cands), best)

\* The forEach that keeps the first candidate of the highest total score
\* among those of uniqueness > 0.7; best is [key, score].
RECURSIVE SmartBest(_, _)
SmartBest(cands, best) ==
  IF cands = <<>> THEN best.key
  ELSE LET c == Head(cands) IN
       IF FracGt(SmartTotalScore(c), best.score) /\ FracGt(c.uniqueness, Frac(7, 10))
       THEN SmartBest(Tail(cands), [key |-> Str(c.k), score |-> SmartTotalScore(c)])
       ELSE SmartBest(Tail(cands), best)

\* The canonical name of the detected key as a string value, or Null.
detectSmartPrimaryKey(sheets) ==
  SmartBest(SmartCandidates(<<>>, sheets), [key |-> Null, score |-> Frac(0, 1)])

\* The naming score of findBestPrimaryKey.
BestNameScore(lowerHeader) ==
    (IF includes(lowerHeader, <<"i","d">>) THEN 10 ELSE 0)
  + (IF includes(lowerHeader, <<"k","e","y">>) THEN 8 ELSE 0)
  + (IF includes(lowerHeader, <<"c","o","d","e">>) THEN 6 ELSE 0)
  + (IF includes(lowerHeader, <<"n","u","m","b","e","r">>) THEN 4 ELSE 0)
  + (IF includes(lowerHeader, <<"r","e","f","e","r","e","n","c","e">>)
        \/ includes(lowerHeader, <<"r","e","f">>) THEN 5 ELSE 0)

\* uniqueValues.size / values.length, values being every row of the sheet
BestUniqueness(sheet, header) ==
  Frac(Cardinality(Range(NonEmptyValues(ColumnOf(sheet, header)))), Len(sheet.data))

\* candidateColumns (scores add up over the sheets) and uniquenessScores
\* (the maximum), kept as one sequence of [k, score, uniqueness].
BestCandidateSet(cands, sheet, header) ==
  LET sc == BestNameScore(toLowerCase(header))
      un == BestUniqueness(sheet, header)
      has == \E i \in 1..Len(cands) : cands[i].k = header
      upd(old) == [k |-> header,
                   score |-> old.score + sc,
                   uniqueness |-> FracMax(old.uniqueness, un)]
  IN IF has
     THEN [i \in 1..Len(cands) |-> IF cands[i].k = header THEN upd(cands[i]) ELSE cands[i]]
     ELSE Append(cands, upd([score |-> 0, uniqueness |-> Frac(0, 1)]))

RECURSIVE BestCandidatesOfSheet(_, _, _)
BestCandidatesOfSheet(cands, sheet, hdrs) ==
  IF hdrs = <<>> THEN cands
  ELSE BestCandidatesOfSheet(BestCandidateSet(cands, sheet, Head(hdrs)), sheet, Tail(hdrs))

RECURSIVE BestCandidates(_, _)
BestCandidates(cands, sheets) ==
  IF sheets = <<>> THEN cands
  ELSE IF Len(Head(sheets).data) = 0 THEN BestCandidates(cands, Tail(sheets))
  ELSE BestCandidates(
         BestCandidatesOfSheet(cands, Head(sheets), HeadersOf(Head(sheets))),
         Tail(sheets))

\* nameScore + uniquenessScore * 10, as a fraction
BestTotalScore(cand) ==
  Frac(cand.score * cand.uniqueness.den + 10 * cand.uniqueness.num, cand.uniqueness.den)

RECURSIVE BestColumn(_, _)
BestColumn(cands, best) ==
  IF cands = <<>> THEN best.key
  ELSE LET c == Head(cands) IN
       IF FracGt(BestTotalScore(c), best.score) /\ FracGt(c.uniqueness, Frac(8, 10))
       THEN BestColumn(Tail(cands), [key |-> Str(c.k), score |-> BestTotalScore(c)])
       ELSE BestColumn(Tail(cands), best)

\* findBestPrimaryKey with a slip: no early return and bestColumn declared
\* without its initial null.
findBestPrimaryKeyUnset(sheets) ==
  BestColumn(BestCandidates(<<>>, sheets), [key |-> Undefined, score |-> Frac(0, 1)])

\* The raw header of the detected key as a string value, or Null.
findBestPrimaryKey(sheets) ==
  IF Len(sheets) = 0 THEN Null
  ELSE BestColumn(BestCandidates(<<>>, sheets), [key |-> Null, score |-> Frac(0, 1)])

-----------------------------------------------------------------------------
(* Entity merger                                                            *)

fieldPriority ==
  << <<"N","a","m","e">>, <<"I","D">>, <<"C","o","d","e">>,
     <<"T","i","t","l","e">>, <<"E","m","a","i","l">>, <<"P","h","o","n","e">> >>

\* The values of the priority fields the row holds, as strings.
RECURSIVE PriorityFields(_, _)
PriorityFields(row, fields) ==
  IF fields = <<>> THEN <<>>
  ELSE (IF ~IsEmptyValue(Get(row, Head(fields)))
        THEN <<String(Get(row, Head(fields)))>> ELSE <<>>)
       \o PriorityFields(row, Tail(fields))

\* The first values of the row that are not empty, up to three, as strings.
RECURSIVE FirstValues(_, _)
FirstValues(entries, found) ==
  IF entries = <<>> THEN found
  ELSE IF ~IsEmptyValue(Head(entries).v) /\ Len(found) < 3
  THEN FirstValues(Tail(entries), Append(found, String(Head(entries).v)))
  ELSE FirstValues(Tail(entries), found)

\* `entity_${Date.now()}_${Math.random()...}`: random is the part that
\* differs from one call to the next.
RandomEntityKey(random) == <<"e","n","t","i","t","y","_">> \o random

\* createCompositeKey with a slip: only the first priority field that the row
\* holds is used.
createCompositeKeyOfFirst(row, random) ==
  LET priority == PriorityFields(row, fieldPriority)
      identifyingFields == IF Len(priority) = 0 THEN FirstValues(row, <<>>) ELSE <<priority[1]>>
      joined == join(identifyingFields, <<"|">>)
  IN IF joined # <<>> THEN joined ELSE RandomEntityKey(random)

\* createCompositeKey with a slip: the generated key is used for every row.
createCompositeKeyGenerated(row, random) == RandomEntityKey(random)

createCompositeKey(row, random) ==
  LET priority == PriorityFields(row, fieldPriority)
      identifyingFields == IF Len(priority) = 0 THEN FirstValues(row, <<>>) ELSE priority
      joined == join(identifyingFields, <<"|">>)
  IN IF joined # <<>> THEN joined ELSE RandomEntityKey(random)

\* ResolveConflict with a slip: the last value written wins.
ResolveConflictLastWins(old, new) == new

\* The conflict rule of mergeEntityAttributes for one key whose value in
\* merged (old) is not empty and differs from the value of newRow (new).
ResolveConflict(old, new) ==
  IF typeof(new) = "string" /\ typeof(old) = "string"
  THEN IF Len(new.s) > Len(old.s) THEN new ELSE old
  ELSE IF typeof(new) = "number" /\ new.t # "nan" THEN new
  ELSE old

MergeAttribute(merged, key, value) ==
  IF IsEmptyValue(value) THEN merged
  ELSE IF IsEmptyValue(Get(merged, key)) THEN Put(merged, key, value)
  ELSE IF ~StrictEq(Get(merged, key), value)
  THEN Put(merged, key, ResolveConflict(Get(merged, key), value))
  ELSE merged

RECURSIVE MergeEntries(_, _)
MergeEntries(merged, entries) ==
  IF entries = <<>> THEN merged
  ELSE MergeEntries(MergeAttribute(merged, Head(entries).k, Head(entries).v), Tail(entries))

mergeEntityAttributes(existing, newRow) == MergeEntries(existing, newRow)

\* The cleaned row: the canonical name and the normalised value of every
\* entry whose normalised value is not empty.
CleanEntry(cleanRow, key, value) ==
  LET normalizedValue == normalizeBusinessValue(value, key)
  IN IF ~IsEmptyValue(normalizedValue)
     THEN Put(cleanRow, createBusinessColumnName(key), normalizedValue)
     ELSE cleanRow

RECURSIVE CleanEntries(_, _)
CleanEntries(cleanRow, entries) ==
  IF entries = <<>> THEN cleanRow
  ELSE CleanEntries(CleanEntry(cleanRow, Head(entries).k, Head(entries).v), Tail(entries))

CleanRow(row) == CleanEntries(<<>>, row)

\* primaryKey && cleanRow[primaryKey]
UsesPrimaryKey(primaryKey, cleanRow) ==
  Truthy(primaryKey) /\ Truthy(Get(cleanRow, primaryKey.s))

EntityId(primaryKey, cleanRow, random) ==
  IF UsesPrimaryKey(primaryKey, cleanRow)
  THEN String(Get(cleanRow, primaryKey.s))
  ELSE createCompositeKey(cleanRow, random)

\* The Map: a sequence of [id, ent] in insertion order.
MapHas(map, id) == \E i \in 1..Len(map) : map[i].id = id

MapGet(map, id) == map[CHOOSE i \in 1..Len(map) : map[i].id = id].ent

\* MapSet with a slip: the entry is deleted and set again, which moves an
\* existing key to the end.
MapSetMoveToEnd(map, id, ent) ==
  LET Other(e) == e.id # id
  IN Append(SelectSeq(map, Other), [id |-> id, ent |-> ent])

\* Map.prototype.set: an existing key keeps its place.
MapSet(map, id, ent) ==
  IF MapHas(map, id)
  THEN [i \in 1..Len(map) |-> IF map[i].id = id THEN [id |-> id, ent |-> ent] ELSE map[i]]
  ELSE Append(map, [id |-> id, ent |-> ent])

\* Array.from(entityMap.values())
MapValues(map) == [i \in 1..Len(map) |-> map[i].ent]

\* Merge with the existing entity or create a new one.
MergeIntoMap(entityMap, entityId, cleanRow) ==
  IF MapHas(entityMap, entityId)
  THEN MapSet(entityMap, entityId, mergeEntityAttributes(MapGet(entityMap, entityId), cleanRow))
  ELSE MapSet(entityMap, entityId, cleanRow)

\* MergeRow with a slip: once a primary key is detected, a row without a
\* usable value for it is dropped instead of getting a composite key.
MergeRowKeyedOnly(entityMap, primaryKey, row, random) ==
  LET cleanRow == CleanRow(row) IN
  IF Len(cleanRow) = 0 \/ (Truthy(primaryKey) /\ ~UsesPrimaryKey(primaryKey, cleanRow))
  THEN entityMap
  ELSE MergeIntoMap(entityMap, EntityId(primaryKey, cleanRow, random), cleanRow)

\* The body of sheet.data.forEach(row => ...) in createHorizontalMerge.
MergeRow(entityMap, primaryKey, row, random) ==
  LET cleanRow == CleanRow(row) IN
  IF Len(cleanRow) = 0 THEN entityMap
  ELSE MergeIntoMap(entityMap, EntityId(primaryKey, cleanRow, random), cleanRow)

\* All rows of all sheets, in the order the nested forEach visits them.
RECURSIVE AllRows(_)
AllRows(sheets) ==
  IF sheets = <<>> THEN <<>> ELSE Head(sheets).data \o AllRows(Tail(sheets))

\* The loop of createHorizontalMerge over rows, every generated key drawing
\* the same random part.
RECURSIVE MergeRows(_, _, _, _)
MergeRows(entityMap, primaryKey, rows, random) ==
  IF rows = <<>> THEN entityMap
  ELSE MergeRows(MergeRow(entityMap, primaryKey, Head(rows), random), primaryKey,
                 Tail(rows), random)

createHorizontalMerge(sheets, random) ==
  MapValues(MergeRows(<<>>, detectSmartPrimaryKey(sheets), AllRows(sheets), random))

-----------------------------------------------------------------------------
(* Schema analyzer                                                          *)

\* seq without the later copies of an element: the order of a Set or of
\* the keys of a Map filled from seq.
RECURSIVE Distinct(_, _)
Distinct(seq, seen) ==
  IF seq = <<>> THEN seen
  ELSE IF Head(seq) \in Range(seen) THEN Distinct(Tail(seq), seen)
  ELSE Distinct(Tail(seq), Append(seen, Head(seq)))

\* The headers of every sheet that has rows, one after the other.
RECURSIVE HeaderOccurrences(_)
HeaderOccurrences(sheets) ==
  IF sheets = <<>> THEN <<>>
  ELSE (IF Len(Head(sheets).data) > 0 THEN HeadersOf(Head(sheets)) ELSE <<>>)
       \o HeaderOccurrences(Tail(sheets))

\* columnFrequency.get(col)
ColumnFrequency(sheets, col) ==
  LET occ == HeaderOccurrences(sheets)
  IN Cardinality({i \in 1..Len(occ) : occ[i] = col})

\* h1 is a common column: headers2.some(h2 => same lower case or similarity > 0.8);
\* the similarity is taken of the headers as they are written.
RelationshipSimilarity(h1, h2) == calculateSimilarity(h1, h2)

IsCommonWith(h1, headers2) ==
  \E i \in 1..Len(headers2) :
    \/ toLowerCase(h1) = toLowerCase(headers2[i])
    \/ FracGt(RelationshipSimilarity(h1, headers2[i]), Frac(8, 10))

RECURSIVE CommonCols(_, _)
CommonCols(headers1, headers2) ==
  IF headers1 = <<>> THEN <<>>
  ELSE (IF IsCommonWith(Head(headers1), headers2) THEN <<Head(headers1)>> ELSE <<>>)
       \o CommonCols(Tail(headers1), headers2)

\* The relationships found for the pair, none or one.
findDataRelationship(sheet1, sheet2) ==
  IF Len(sheet1.data) = 0 \/ Len(sheet2.data) = 0 THEN <<>>
  ELSE LET headers1 == HeadersOf(sheet1)
           headers2 == HeadersOf(sheet2)
           commonCols == CommonCols(headers1, headers2)
       IN IF Len(commonCols) > 0
          THEN << [sheet1 |-> sheet1.fileName,
                   sheet2 |-> sheet2.fileName,
                   commonColumns |-> commonCols,
                   confidence |-> Frac(Len(commonCols),
                                       IF Len(headers1) < Len(headers2)
                                       THEN Len(headers1) ELSE Len(headers2))] >>
          ELSE <<>>

\* The relationships of sheet number index with every other sheet, from other on.
RECURSIVE RelationshipsOf(_, _, _)
RelationshipsOf(sheets, index, other) ==
  IF other > Len(sheets) THEN <<>>
  ELSE (IF other # index THEN findDataRelationship(sheets[index], sheets[other]) ELSE <<>>)
       \o RelationshipsOf(sheets, index, other + 1)

RECURSIVE Relationships(_, _)
Relationships(sheets, index) ==
  IF index > Len(sheets) THEN <<>>
  ELSE RelationshipsOf(sheets, index, 1) \o Relationships(sheets, index + 1)

analyzeDataStructures(sheets) ==
  LET allColumns == Distinct(HeaderOccurrences(sheets), <<>>)
      IsCommon(col) == ColumnFrequency(sheets, col) > 1
      IsUnique(col) == ColumnFrequency(sheets, col) = 1
  IN [commonColumns |-> SelectSeq(allColumns, IsCommon),
      similarColumns |-> findSimilarColumns(allColumns),
      uniqueColumns |-> SelectSeq(allColumns, IsUnique),
      relationships |-> Relationships(sheets, 1),
      totalSheets |-> Len(sheets),
      totalColumns |-> Len(allColumns)]

-----------------------------------------------------------------------------
(* Column normaliser of src/unnamed/part_003: the canonical names of words  *)
(* and createCleanColumnMapping                                             *)

businessMappings ==
  << [k |-> <<"i","d">>, v |-> <<"I","D">>],
     [k |-> <<"n","a","m","e">>, v |-> <<"N","a","m","e">>],
     [k |-> <<"e","m","a","i","l">>, v |-> <<"E","m","a","i","l">>],
     [k |-> <<"p","h","o","n","e">>, v |-> <<"P","h","o","n","e">>],
     [k |-> <<"a","d","d","r","e","s","s">>, v |-> <<"A","d","d","r","e","s","s">>],
     [k |-> <<"d","a","t","e">>, v |-> <<"D","a","t","e">>],
     [k |-> <<"a","m","o","u","n","t">>, v |-> <<"A","m","o","u","n","t">>],
     [k |-> <<"p","r","i","c","e">>, v |-> <<"P","r","i","c","e">>],
     [k |-> <<"q","u","a","n","t","i","t","y">>, v |-> <<"Q","u","a","n","t","i","t","y">>],
     [k |-> <<"s","t","a","t","u","s">>, v |-> <<"S","t","a","t","u","s">>],
     [k |-> <<"t","y","p","e">>, v |-> <<"T","y","p","e">>],
     [k |-> <<"c","a","t","e","g","o","r","y">>, v |-> <<"C","a","t","e","g","o","r","y">>],
     [k |-> <<"d","e","s","c","r","i","p","t","i","o","n">>, v |-> <<"D","e","s","c","r","i","p","t","i","o","n">>],
     [k |-> <<"t","o","t","a","l">>, v |-> <<"T","o","t","a","l">>],
     [k |-> <<"c","u","s","t","o","m","e","r">>, v |-> <<"C","u","s","t","o","m","e","r">>],
     [k |-> <<"c","l","i","e","n","t">>, v |-> <<"C","u","s","t","o","m","e","r">>],
     [k |-> <<"u","s","e","r">>, v |-> <<"U","s","e","r">>],
     [k |-> <<"p","r","o","d","u","c","t">>, v |-> <<"P","r","o","d","u","c","t">>],
     [k |-> <<"s","e","r","v","i","c","e">>, v |-> <<"S","e","r","v","i","c","e">>],
     [k |-> <<"o","r","d","e","r">>, v |-> <<"O","r","d","e","r">>],
     [k |-> <<"i","n","v","o","i","c","e">>, v |-> <<"I","n","v","o","i","c","e">>],
     [k |-> <<"p","a","y","m","e","n","t">>, v |-> <<"P","a","y","m","e","n","t">>] >>

\* .replace(/[_-]/g, ' ').replace(/([A-Z])/g, ' $1')
RECURSIVE SpaceOutWords(_)
SpaceOutWords(str) ==
  IF str = <<>> THEN <<>>
  ELSE (IF Head(str) \in {"_", "-"} THEN <<" ">>
        ELSE IF Head(str) \in UpperSet THEN <<" ", Head(str)>>
        ELSE <<Head(str)>>)
       \o SpaceOutWords(Tail(str))

\* str.split(' '); word is the word read so far.
RECURSIVE split(_, _)
split(str, word) ==
  IF str = <<>> THEN <<word>>
  ELSE IF Head(str) = " " THEN <<word>> \o split(Tail(str), <<>>)
  ELSE split(Tail(str), Append(word, Head(str)))

\* businessMappings[lowerWord] || word.charAt(0).toUpperCase() + word.slice(1).toLowerCase()
MapWord(word) ==
  LET lowerWord == toLowerCase(word)
      known == {i \in 1..Len(businessMappings) : businessMappings[i].k = lowerWord}
  IN IF known # {} THEN businessMappings[CHOOSE i \in known : TRUE].v
     ELSE [i \in 1..Len(word) |-> IF i = 1 THEN ToUpperChar(word[i]) ELSE ToLowerChar(word[i])]

\* createBusinessColumnName of part_003, which names a column word by word.
createBusinessColumnNameOfWords(columnName) ==
  LET cleaned == trim(CollapseSpaces(SpaceOutWords(columnName)))
      words == split(cleaned, <<>>)
  IN join([i \in 1..Len(words) |-> MapWord(words[i])], <<" ">>)

\* while (usedStandardNames.has(finalName)) finalName = `${standardName} ${counter}`
RECURSIVE FinalName(_, _, _)
FinalName(standardName, usedStandardNames, counter) ==
  LET finalName == IF counter = 0 THEN standardName
                   ELSE standardName \o <<" ">> \o NatToStr(counter)
  IN IF finalName \in usedStandardNames
     THEN FinalName(standardName, usedStandardNames, counter + 1)
     ELSE finalName

\* mapping[col] = finalName for every col of cols
RECURSIVE MapAll(_, _, _)
MapAll(mapping, cols, finalName) ==
  IF cols = <<>> THEN mapping
  ELSE MapAll(Put(mapping, Head(cols), Str(finalName)), Tail(cols), finalName)

\* First pass: the groups of similar columns; st is [mapping, used].
RECURSIVE MapGroups(_, _)
MapGroups(st, groups) ==
  IF groups = <<>> THEN st
  ELSE LET mainCol == Head(groups).k
           finalName == FinalName(createBusinessColumnNameOfWords(mainCol), st.used, 0)
       IN MapGroups([mapping |-> MapAll(Put(st.mapping, mainCol, Str(finalName)),
                                        Head(groups).v, finalName),
                     used |-> st.used \cup {finalName}],
                    Tail(groups))

\* Second pass: the columns of the first row of every sheet that have no
\* name yet.
RECURSIVE MapRemaining(_, _)
MapRemaining(st, cols) ==
  IF cols = <<>> THEN st
  ELSE IF Truthy(Get(st.mapping, Head(cols))) THEN MapRemaining(st, Tail(cols))
  ELSE LET finalName == FinalName(createBusinessColumnNameOfWords(Head(cols)), st.used, 0)
       IN MapRemaining([mapping |-> Put(st.mapping, Head(cols), Str(finalName)),
                        used |-> st.used \cup {finalName}],
                       Tail(cols))

createCleanColumnMapping(sheets, analysis) ==
  MapRemaining(MapGroups([mapping |-> <<>>, used |-> {}], analysis.similarColumns),
               HeaderOccurrences(sheets)).mapping

-----------------------------------------------------------------------------
(* Results                                                                  *)

\* The strategy that fits the analysis; the confidences are fractions.
determineConsolidationStrategy(analysis) ==
  IF 2 * Len(analysis.commonColumns) > analysis.totalSheets THEN "merge"
  ELSE IF \E r \in 1..Len(analysis.relationships) :
            FracGt(analysis.relationships[r].confidence, Frac(7, 10)) THEN "lookup"
  ELSE IF Len(analysis.commonColumns) > 2 THEN "union"
  ELSE "aggregate"

\* Object.keys(mergedData[0] || {})
FirstRecordKeys(mergedData) ==
  IF Len(mergedData) = 0 THEN <<>> ELSE Keys(mergedData[1])

\* mergedData.flatMap(row => Object.keys(row))
RECURSIVE AllKeys(_)
AllKeys(mergedData) ==
  IF mergedData = <<>> THEN <<>> ELSE Keys(Head(mergedData)) \o AllKeys(Tail(mergedData))

\* The GeminiAnalysis that createIntelligentFallbackAnalysis returns for the
\* merged records: the fields that depend on the input.  summary stands for
\* the summary and insights texts, which are made of these three counts.
FallbackAnalysis(sheets, mergedData) ==
  [origin |-> "fallback",
   consolidationStrategy |-> "horizontal_merge",
   primaryKey |-> findBestPrimaryKey(sheets),
   columnExpansion |-> Distinct(AllKeys(mergedData), <<>>),
   summary |-> [text |-> "counts", sources |-> Len(sheets), records |-> Len(mergedData),
                columns |-> Len(FirstRecordKeys(mergedData))],
   consolidatedHeaders |-> FirstRecordKeys(mergedData),
   mergedData |-> mergedData]

createIntelligentFallbackAnalysis(sheets, random) ==
  FallbackAnalysis(sheets, createHorizontalMerge(sheets, random))

\* The GeminiAnalysis that validateAndEnhanceAnalysis returns for the parsed
\* answer of the LLM; merged is the result of createHorizontalMerge, used
\* when the answer holds no records.  An answer's mergedData or
\* consolidatedHeaders that is no array is the empty sequence here.
EnhancedAnalysis(analysis, merged) ==
  LET mergedData == IF Len(analysis.mergedData) > 0 THEN analysis.mergedData ELSE merged
      headers == analysis.consolidatedHeaders
  IN [origin |-> "llm",
      consolidationStrategy |-> "answer",
      primaryKey |-> Undefined,
      columnExpansion |-> <<>>,
      summary |-> [text |-> IF analysis.summary = "" THEN "default" ELSE analysis.summary,
                   sources |-> 0, records |-> 0, columns |-> 0],
      consolidatedHeaders |-> IF Len(headers) = 0 /\ Len(mergedData) > 0
                              THEN Keys(mergedData[1]) ELSE headers,
      mergedData |-> mergedData]

-----------------------------------------------------------------------------
(* Inputs                                                                   *)

\* The most rows and the most sheets of an input of Spec.
MaxRows == 3

MaxSheets == 2

MaxAnalyzeRows == 2

\* The longest string over a and b given to calculateSimilarity.
MaxSimLen == 3

\* The most zeros after the first digit of a string of digits given to
\* normalizeBusinessValue.
MaxZeros == 21

RowJo ==
  <<[k |-> <<"I","D">>, v |-> Str(<<"1">>)], [k |-> <<"N","a","m","e">>, v |-> Str(<<"J","o">>)]>>

RowJonathan ==
  <<[k |-> <<"I","D">>, v |-> Str(<<"1">>)], [k |-> <<"N","a","m","e">>, v |-> Str(<<"J","o","n","a","t","h","a","n">>)], [k |-> <<"S","c","o","r","e">>, v |-> Num(7)]>>

RowBlank ==
  <<[k |-> <<"I","D">>, v |-> Null], [k |-> <<"N","a","m","e">>, v |-> Str(<<" ">>)]>>

RowNoId ==
  <<[k |-> <<"N","a","m","e">>, v |-> Str(<<"J","o">>)]>>

RowZero ==
  <<[k |-> <<"I","D">>, v |-> Num(0)], [k |-> <<"N","a","m","e">>, v |-> Str(<<"A","l">>)]>>

RowZeroBo ==
  <<[k |-> <<"I","D">>, v |-> Num(0)], [k |-> <<"N","a","m","e">>, v |-> Str(<<"B","o">>)]>>

\* The rows an input of Spec is made of: one identifier in two rows, a
\* longer and a shorter name, a row of blanks, a row without identifier and
\* a row whose identifier is the number 0.
RowPalette == {RowJo, RowJonathan, RowBlank, RowNoId, RowZero}

\* rows cut into Len(cuts) sheets: sheet i holds the rows after cuts[i - 1]
\* up to cuts[i].
SheetsOf(rows, cuts) ==
  [i \in 1..Len(cuts) |->
     [fileName |-> i,
      data |-> SubSeq(rows, (IF i = 1 THEN 0 ELSE cuts[i - 1]) + 1, cuts[i])]]

\* Every way to put up to MaxRows rows of the palette into up to MaxSheets
\* sheets, empty sheets included.
Inputs ==
  {<<>>} \cup
  UNION { UNION { { SheetsOf(rows, cuts) :
                      cuts \in { c \in [1..k -> 0..n] :
                                   /\ c[k] = n
                                   /\ \A i \in 1..(k - 1) : c[i] <= c[i + 1] } } :
                    rows \in [1..n -> RowPalette] } :
          n \in 0..MaxRows, k \in 1..MaxSheets }

\* The sources of the end-to-end example: Source A with CustID and Name,
\* Source B with CustomerID and Revenue.
SourceA ==
  [fileName |-> 1,
   data |-> << <<[k |-> <<"C","u","s","t","I","D">>, v |-> Str(<<"1">>)], [k |-> <<"N","a","m","e">>, v |-> Str(<<"A","c","m","e">>)]>>,
               <<[k |-> <<"C","u","s","t","I","D">>, v |-> Str(<<"2">>)], [k |-> <<"N","a","m","e">>, v |-> Str(<<"G","l","o","b","e","x">>)]>> >>]

SourceB ==
  [fileName |-> 2,
   data |-> << <<[k |-> <<"C","u","s","t","o","m","e","r","I","D">>, v |-> Str(<<"1">>)], [k |-> <<"R","e","v","e","n","u","e">>, v |-> Str(<<"$","1",",","2","0","0">>)]>>,
               <<[k |-> <<"C","u","s","t","o","m","e","r","I","D">>, v |-> Str(<<"3">>)], [k |-> <<"R","e","v","e","n","u","e">>, v |-> Str(<<"$","5","0","0">>)]>> >>]

CustomerName == <<"C","u","s","t","o","m","e","r"," ","N","a","m","e">>

ClientName == <<"C","l","i","e","n","t"," ","N","a","m","e">>

\* Two sources that name the same column Customer Name and Client Name.
CustomerNames ==
  [fileName |-> 1, data |-> << <<[k |-> CustomerName, v |-> Str(<<"A","c","m","e">>)]>> >>]

ClientNames ==
  [fileName |-> 2, data |-> << <<[k |-> ClientName, v |-> Str(<<"A","c","m","e">>)]>> >>]

\* A source that carries a source-tracking column of its own.
SourceFile == <<"S","o","u","r","c","e","_","F","i","l","e">>

Tracked ==
  [fileName |-> 1,
   data |-> << <<[k |-> <<"I","D">>, v |-> Str(<<"1">>)], [k |-> SourceFile, v |-> Str(<<"a",".","x","l","s","x">>)]>> >>]

\* Two sources whose identifier is the number 0.
ZeroAl == [fileName |-> 1, data |-> <<RowZero>>]

ZeroBo == [fileName |-> 2, data |-> <<RowZeroBo>>]

\* A source whose rows do not all hold the identifier: one holds two of the
\* priority fields of createCompositeKey, one holds none of them.
Contacts ==
  [fileName |-> 1,
   data |-> << <<[k |-> <<"I","D">>, v |-> Str(<<"1">>)], [k |-> <<"N","a","m","e">>, v |-> Str(<<"J","o">>)]>>,
               <<[k |-> <<"N","a","m","e">>, v |-> Str(<<"A","l">>)], [k |-> <<"E","m","a","i","l">>, v |-> Str(<<"a","l","@","x">>)]>>,
               <<[k |-> <<"C","i","t","y">>, v |-> Str(<<"R","o","m","e">>)], [k |-> <<"S","t","r","e","e","t">>, v |-> Str(<<"V","i","a">>)], [k |-> <<"F","l","o","o","r">>, v |-> Str(<<"u","p">>)], [k |-> <<"D","o","o","r">>, v |-> Str(<<"b">>)]>> >>]

\* A source with a blank where an amount should be.
Blanks ==
  [fileName |-> 1,
   data |-> << <<[k |-> <<"I","D">>, v |-> Str(<<"1">>)], [k |-> <<"A","m","o","u","n","t">>, v |-> Str(<<" ">>)], [k |-> <<"N","a","m","e">>, v |-> Str(<<" ">>)]>> >>]

Scenarios ==
  {<<SourceA, SourceB>>, <<CustomerNames, ClientNames>>, <<Tracked>>, <<ZeroAl, ZeroBo>>,
   <<Contacts>>, <<Blanks>>}

\* What Math.random and Date.now can make of a generated key.
Randoms == {<<"1">>, <<"2">>}

-----------------------------------------------------------------------------
(* The state                                                                *)

VARIABLES
  data,          \* the sheets given to the call
  apiKey,        \* process.env.GEMINI_API_KEY is set
  pc,            \* where the call is
  cause,         \* why the deterministic engine runs
  cont,          \* who called createHorizontalMerge
  llm,           \* the parsed answer of the LLM under validation
  dataAnalysis,  \* the result of analyzeDataStructures
  primaryKey,    \* the key createHorizontalMerge detected
  entityMap,     \* the Map of createHorizontalMerge
  rowIdx,        \* the rows of AllRows(data) processed so far
  rowIds,        \* for each processed row: skipped as empty, or its identifier
  result,        \* what the call returned
  rerun,         \* the Map of a second run on the same input
  rerunResult,   \* what the second run returned
  existing,      \* the entity given to a call of mergeEntityAttributes
  newRow,        \* the row given to that call
  merged,        \* what that call returned
  args,          \* the arguments of a call of one of the pure functions
  ret,           \* what that call returned
  calls          \* two calls of analyzeExcelData in one process

vars == <<data, apiKey, pc, cause, cont, llm, dataAnalysis, primaryKey,
          entityMap, rowIdx, rowIds, result, rerun, rerunResult,
          existing, newRow, merged, args, ret, calls>>

mergeCall == <<existing, newRow, merged>>

pureCall == <<args, ret, calls>>

\* The state of a call of analyzeExcelData or createIntelligentFallbackAnalysis
\* but for its position.
callState == <<data, apiKey, cause, cont, llm, dataAnalysis, primaryKey, entityMap,
               rowIdx, rowIds, result, rerun, rerunResult>>

NoAnalysis ==
  [commonColumns |-> <<>>, similarColumns |-> <<>>, uniqueColumns |-> <<>>,
   relationships |-> <<>>, totalSheets |-> 0, totalColumns |-> 0]

NoResult ==
  [origin |-> "none", consolidationStrategy |-> "none", primaryKey |-> Undefined, columnExpansion |-> <<>>,
   summary |-> [text |-> "", sources |-> 0, records |-> 0, columns |-> 0],
   consolidatedHeaders |-> <<>>, mergedData |-> <<>>]

NoAnswer == [kind |-> "none", summary |-> "", consolidatedHeaders |-> <<>>, mergedData |-> <<>>]

Start(sheets, key, at, why) ==
  /\ data = sheets
  /\ apiKey = key
  /\ pc = at
  /\ cause = why
  /\ cont = "none"
  /\ llm = NoAnswer
  /\ dataAnalysis = NoAnalysis
  /\ primaryKey = Null
  /\ entityMap = <<>>
  /\ rowIdx = 0
  /\ rowIds = <<>>
  /\ result = NoResult
  /\ rerun = <<>>
  /\ rerunResult = NoResult

NoMergeCall == existing = <<>> /\ newRow = <<>> /\ merged = <<>>

NoPureCall == args = <<>> /\ ret = <<>> /\ calls = <<>>

\* createIntelligentFallbackAnalysis is called with any input.
Init ==
  /\ \E sheets \in Inputs \cup Scenarios : Start(sheets, FALSE, "fallback", "direct")
  /\ NoMergeCall
  /\ NoPureCall

-----------------------------------------------------------------------------
(* createIntelligentFallbackAnalysis and createHorizontalMerge              *)

\* The entry of rowIds for a row.
RowRecord(key, row, random) ==
  LET cleanRow == CleanRow(row) IN
  IF Len(cleanRow) = 0 THEN [empty |-> TRUE, byKey |-> FALSE, id |-> <<>>]
  ELSE [empty |-> FALSE,
        byKey |-> UsesPrimaryKey(key, cleanRow),
        id |-> EntityId(key, cleanRow, random)]

\* createIntelligentFallbackAnalysis up to the loop of createHorizontalMerge.
BeginFallback ==
  /\ pc = "fallback"
  /\ dataAnalysis' = analyzeDataStructures(data)
  /\ primaryKey' = detectSmartPrimaryKey(data)
  /\ entityMap' = <<>>
  /\ rerun' = <<>>
  /\ rowIdx' = 0
  /\ rowIds' = <<>>
  /\ cont' = "fallback"
  /\ pc' = "merge"
  /\ UNCHANGED <<mergeCall, pureCall, data, apiKey, cause, llm, result, rerunResult>>

\* One row of the loop; the second run draws its own random part.
ProcessRow ==
  /\ pc = "merge"
  /\ rowIdx < Len(AllRows(data))
  /\ \E random \in Randoms, again \in Randoms :
       LET row == AllRows(data)[rowIdx + 1] IN
       /\ entityMap' = MergeRow(entityMap, primaryKey, row, random)
       /\ rerun' = MergeRow(rerun, primaryKey, row, again)
       /\ rowIds' = Append(rowIds, RowRecord(primaryKey, row, random))
  /\ rowIdx' = rowIdx + 1
  /\ UNCHANGED <<mergeCall, pureCall, data, apiKey, pc, cause, cont, llm, dataAnalysis, primaryKey,
                 result, rerunResult>>

\* The loop is over: createIntelligentFallbackAnalysis returns.
FinishFallback ==
  /\ pc = "merge"
  /\ cont = "fallback"
  /\ rowIdx = Len(AllRows(data))
  /\ result' = FallbackAnalysis(data, MapValues(entityMap))
  /\ rerunResult' = FallbackAnalysis(data, MapValues(rerun))
  /\ pc' = "done"
  /\ UNCHANGED <<mergeCall, pureCall, data, apiKey, cause, cont, llm, dataAnalysis, primaryKey,
                 entityMap, rowIdx, rowIds, rerun>>

Next == BeginFallback \/ ProcessRow \/ FinishFallback

Spec == Init /\ [][Next]_vars

-----------------------------------------------------------------------------
(* analyzeExcelData                                                         *)

\* What the LLM can answer: a text that is no JSON, the JSON null, the object
\* grouped by source that the prompt asks for (none of the fields of a
\* GeminiAnalysis), an analysis with records of its own, one of them with a
\* source column, and an analysis with headers and clean records.
AnswerText == [NoAnswer EXCEPT !.kind = "text"]

AnswerNull == [NoAnswer EXCEPT !.kind = "null"]

AnswerGrouped == [NoAnswer EXCEPT !.kind = "object"]

AnswerRecords ==
  [kind |-> "object", summary |-> "s", consolidatedHeaders |-> <<>>,
   mergedData |-> << <<[k |-> <<"I","D">>, v |-> Str(<<"1">>)],
                       [k |-> <<"S","o","u","r","c","e"," ","F","i","l","e">>, v |-> Str(<<"a",".","x","l","s","x">>)]>> >>]

AnswerClean ==
  [kind |-> "object", summary |-> "", consolidatedHeaders |-> << <<"I","D">> >>,
   mergedData |-> << <<[k |-> <<"I","D">>, v |-> Str(<<"1">>)]>> >>]

\* An answer whose headers name a column that its records do not have.
AnswerLoose ==
  [kind |-> "object", summary |-> "s", consolidatedHeaders |-> << <<"I","D">>, <<"T","o","t","a","l">> >>,
   mergedData |-> << <<[k |-> <<"I","D">>, v |-> Str(<<"1">>)]>> >>]

Answers == {AnswerText, AnswerNull, AnswerGrouped, AnswerRecords, AnswerClean, AnswerLoose}

\* JsonParses with a slip: a lenient parser that makes an empty object of
\* what it cannot read.
JsonParsesAnything(answer) == TRUE

\* JSON.parse(cleanedText) returns.
JsonParses(answer) == answer.kind # "text"

\* validateAndEnhanceAnalysis throws: analysis.masterWorkflow of null.
ValidationThrows(answer) == answer.kind = "null"

\* The inputs of analyzeExcelData: those of at most MaxAnalyzeRows rows, and
\* the scenarios.
AnalyzeInputs == {sheets \in Inputs : Len(AllRows(sheets)) <= MaxAnalyzeRows} \cup Scenarios

InitAnalyze ==
  /\ \E sheets \in AnalyzeInputs, key \in BOOLEAN : Start(sheets, key, "start", "none")
  /\ NoMergeCall
  /\ NoPureCall

\* if (!process.env.GEMINI_API_KEY) return createIntelligentFallbackAnalysis(data)
NoApiKey ==
  /\ pc = "start"
  /\ ~apiKey
  /\ cause' = "nokey"
  /\ pc' = "fallback"
  /\ UNCHANGED <<mergeCall, pureCall, data, apiKey, cont, llm, dataAnalysis, primaryKey, entityMap,
                 rowIdx, rowIds, result, rerun, rerunResult>>

\* The key is set: the data analysis and the prompt are prepared.
PrepareCall ==
  /\ pc = "start"
  /\ apiKey
  /\ dataAnalysis' = analyzeDataStructures(data)
  /\ pc' = "call"
  /\ UNCHANGED <<mergeCall, pureCall, data, apiKey, cause, cont, llm, primaryKey, entityMap,
                 rowIdx, rowIds, result, rerun, rerunResult>>

\* model.generateContent or response.text throws: the outer catch.
GenerateThrows ==
  /\ pc = "call"
  /\ llm' = [NoAnswer EXCEPT !.kind = "throw"]
  /\ cause' = "llm_throw"
  /\ pc' = "fallback"
  /\ UNCHANGED <<mergeCall, pureCall, data, apiKey, cont, dataAnalysis, primaryKey, entityMap,
                 rowIdx, rowIds, result, rerun, rerunResult>>

\* The LLM answers.
GenerateResponds ==
  /\ pc = "call"
  /\ \E answer \in Answers : llm' = answer
  /\ pc' = "parse"
  /\ UNCHANGED <<mergeCall, pureCall, data, apiKey, cause, cont, dataAnalysis, primaryKey, entityMap,
                 rowIdx, rowIds, result, rerun, rerunResult>>

\* analysis = JSON.parse(cleanedText), or the inner catch.
ParseResponse ==
  /\ pc = "parse"
  /\ IF JsonParses(llm)
     THEN pc' = "validate" /\ UNCHANGED cause
     ELSE pc' = "fallback" /\ cause' = "parse_error"
  /\ UNCHANGED <<mergeCall, pureCall, data, apiKey, cont, llm, dataAnalysis, primaryKey, entityMap,
                 rowIdx, rowIds, result, rerun, rerunResult>>

\* validateAndEnhanceAnalysis throws: the inner catch.
ValidateThrows ==
  /\ pc = "validate"
  /\ ValidationThrows(llm)
  /\ cause' = "validate_error"
  /\ pc' = "fallback"
  /\ UNCHANGED <<mergeCall, pureCall, data, apiKey, cont, llm, dataAnalysis, primaryKey, entityMap,
                 rowIdx, rowIds, result, rerun, rerunResult>>

\* validateAndEnhanceAnalysis accepts the records of the answer as they are.
ValidateAccepts ==
  /\ pc = "validate"
  /\ ~ValidationThrows(llm)
  /\ Len(llm.mergedData) > 0
  /\ result' = EnhancedAnalysis(llm, <<>>)
  /\ cont' = "validate"
  /\ pc' = "done"
  /\ UNCHANGED <<mergeCall, pureCall, data, apiKey, cause, llm, dataAnalysis, primaryKey, entityMap,
                 rowIdx, rowIds, rerun, rerunResult>>

\* The answer holds no records: validateAndEnhanceAnalysis calls
\* createHorizontalMerge.
ValidateMerges ==
  /\ pc = "validate"
  /\ ~ValidationThrows(llm)
  /\ Len(llm.mergedData) = 0
  /\ primaryKey' = detectSmartPrimaryKey(data)
  /\ entityMap' = <<>>
  /\ rerun' = <<>>
  /\ rowIdx' = 0
  /\ rowIds' = <<>>
  /\ cont' = "validate"
  /\ pc' = "merge"
  /\ UNCHANGED <<mergeCall, pureCall, data, apiKey, cause, llm, dataAnalysis, result, rerunResult>>

\* The loop is over: validateAndEnhanceAnalysis and analyzeExcelData return.
\* For an empty merge result the code merges once more, with the same result.
FinishValidate ==
  /\ pc = "merge"
  /\ cont = "validate"
  /\ rowIdx = Len(AllRows(data))
  /\ result' = EnhancedAnalysis(llm, MapValues(entityMap))
  /\ pc' = "done"
  /\ UNCHANGED <<mergeCall, pureCall, data, apiKey, cause, cont, llm, dataAnalysis, primaryKey,
                 entityMap, rowIdx, rowIds, rerun, rerunResult>>

NextAnalyze ==
  \/ NoApiKey \/ PrepareCall \/ GenerateThrows \/ GenerateResponds \/ ParseResponse
  \/ ValidateThrows \/ ValidateAccepts \/ ValidateMerges \/ FinishValidate
  \/ BeginFallback \/ ProcessRow \/ FinishFallback

SpecAnalyze == InitAnalyze /\ [][NextAnalyze]_vars

-----------------------------------------------------------------------------
(* mergeEntityAttributes on its own                                         *)

\* The values of a cleaned row: none is null, undefined or ''.
MergeValues ==
  {Str(<<"J","o">>), Str(<<"A","l">>), Str(<<"J","o","n","a","t","h","a","n">>), Str(<<"5">>),
   Num(0), Num(5), Num(7), NaN, Bool(TRUE), Bool(FALSE)}

\* The cleaned rows over Name and Score that are not empty, in both orders
\* of the keys.
MergeRecords ==
  LET name == <<"N","a","m","e">>
      score == <<"S","c","o","r","e">>
  IN { <<[k |-> key, v |-> a]>> : key \in {name, score}, a \in MergeValues } \cup
     { <<[k |-> name, v |-> a], [k |-> score, v |-> b]>> : a \in MergeValues, b \in MergeValues } \cup
     { <<[k |-> score, v |-> b], [k |-> name, v |-> a]>> : a \in MergeValues, b \in MergeValues }

InitMerge ==
  /\ Start(<<>>, FALSE, "attributes", "direct")
  /\ \E E \in MergeRecords, N \in MergeRecords : existing = E /\ newRow = N
  /\ merged = <<>>
  /\ NoPureCall

\* mergeEntityAttributes(existing, newRow) is called and returns.
MergeAttributes ==
  /\ pc = "attributes"
  /\ merged' = mergeEntityAttributes(existing, newRow)
  /\ pc' = "merged"
  /\ UNCHANGED <<data, apiKey, cause, cont, llm, dataAnalysis, primaryKey, entityMap,
                 rowIdx, rowIds, result, rerun, rerunResult, existing, newRow, pureCall>>

NextMerge == MergeAttributes

SpecMerge == InitMerge /\ [][NextMerge]_vars

-----------------------------------------------------------------------------
(* calculateSimilarity on its own                                           *)

\* Every string over a and b of up to MaxSimLen characters, the empty string
\* included, and words of the synonym table.
SimilarityStrings ==
  UNION { [1..k -> {"a", "b"}] : k \in 0..MaxSimLen } \cup
  {<<"c","u","s","t","o","m","e","r">>, <<"c","l","i","e","n","t">>, <<"u","s","e","r">>, <<"n","a","m","e">>, <<"t","i","t","l","e">>, <<"i","d">>, <<"k","e","y">>}

InitSimilarity ==
  /\ Start(<<>>, FALSE, "similarity", "direct")
  /\ NoMergeCall
  /\ \E a \in SimilarityStrings, b \in SimilarityStrings : args = <<a, b>>
  /\ ret = <<>>
  /\ calls = <<>>

\* calculateSimilarity is called with the two strings in both orders.
Similarity ==
  /\ pc = "similarity"
  /\ ret' = <<calculateSimilarity(args[1], args[2]), calculateSimilarity(args[2], args[1])>>
  /\ pc' = "returned"
  /\ UNCHANGED <<callState, mergeCall, args, calls>>

NextSimilarity == Similarity

SpecSimilarity == InitSimilarity /\ [][NextSimilarity]_vars

\* C11: calculateSimilarity(a, b) equals calculateSimilarity(b, a), on the
\* synonym path and on the edit-distance path, for strings of equal length
\* and the empty string too.
C11_Symmetric ==
  pc = "returned" => ret[1].num * ret[2].den = ret[2].num * ret[1].den

\* C11 witness: two strings of different lengths, no synonyms, with a
\* similarity strictly between 0 and 1, were compared in both orders.
C11_Witness ==
  /\ pc = "returned"
  /\ Len(args[1]) < Len(args[2])
  /\ ~InSynonymGroup(args[1], args[2])
  /\ 0 < ret[1].num /\ ret[1].num < ret[1].den

-----------------------------------------------------------------------------
(* normalizeBusinessValue on its own                                        *)

\* Cell values: the empty ones, numbers, booleans, texts with blanks, a date,
\* an amount, digits followed by letters, and the strings of a digit and up
\* to MaxZeros zeros.
NormalizeValues ==
  {Null, Undefined, NaN, Num(0),
   Num(7), Num(-3), Bool(TRUE), Bool(FALSE),
   Str(<<>>), Str(<<" ","J","o"," ">>), Str(<<"J","o">>), Str(<<"2","0","2","4","-","0","1","-","0","5">>),
   Str(<<"$","1",",","2","0","0">>), Str(<<"1","2","a","b","c">>), Str(<<"a","b","c">>), Str(<<" ","4","2"," ">>)} \cup
  {Str(<<"1">> \o [i \in 1..k |-> "0"]) : k \in {0, 3, MaxZeros}}

NormalizeColumns ==
  {<<"D","a","t","e">>, <<"C","r","e","a","t","e","d">>, <<"A","m","o","u","n","t">>,
   <<"U","n","i","t"," ","P","r","i","c","e">>, <<"T","o","t","a","l"," ","C","o","u","n","t">>, <<"Q","t","y">>,
   <<"I","t","e","m"," ","C","o","u","n","t">>, <<"N","a","m","e">>, <<"I","D">>,
   <<"O","r","d","e","r"," ","D","a","t","e">>}

InitNormalize ==
  /\ Start(<<>>, FALSE, "normalize", "direct")
  /\ NoMergeCall
  /\ \E value \in NormalizeValues, columnName \in NormalizeColumns : args = <<value, columnName>>
  /\ ret = <<>>
  /\ calls = <<>>

\* normalizeBusinessValue is called with the value, and again with what it
\* returned.
Normalize ==
  /\ pc = "normalize"
  /\ LET once == normalizeBusinessValue(args[1], args[2])
     IN ret' = <<once, normalizeBusinessValue(once, args[2])>>
  /\ pc' = "returned"
  /\ UNCHANGED <<callState, mergeCall, args, calls>>

NextNormalize == Normalize

SpecNormalize == InitNormalize /\ [][NextNormalize]_vars

\* C12: normalizing a normalized value gives the same value again, for every
\* value and column name, and the date string 2024-01-05 in a date column is
\* returned unchanged.
C12_Idempotent ==
  pc = "returned"
  => /\ ret[2] = ret[1]
     /\ (args = <<Str(<<"2","0","2","4","-","0","1","-","0","5">>), <<"D","a","t","e">>>> => ret[1] = args[1])

\* C26: in a column whose name holds date, time, created or updated, a value
\* that parses as a date is returned as the calendar date YYYY-MM-DD, and a
\* string that does not parse is returned trimmed of the white space around
\* it.
C26_DateOrTrimmed ==
  (pc = "returned" /\ IsDateColumn(toLowerCase(args[2])) /\ ~IsEmptyValue(args[1]))
  => IF DateToIso(args[1]) # Undefined
     THEN ret[1].t = "string" /\ IsIsoDate(ret[1].s)
     ELSE args[1].t = "string" => ret[1] = Str(trim(args[1].s))

-----------------------------------------------------------------------------
(* createCleanColumnMapping of src/unnamed/part_003, called on its own      *)

MaxMappingCols == 2

MappingHeaders ==
  { <<"C","o","s","t">>,
    <<"C","a","s","t">>,
    <<"C","a","r","t">>,
    <<"C","u","s","t","o","m","e","r"," ","N","a","m","e">>,
    <<"C","l","i","e","n","t"," ","N","a","m","e">>,
    <<"c","u","s","t","o","m","e","r","_","n","a","m","e">> }

\* A row that has the columns cols.
RowWith(cols) == [i \in 1..Len(cols) |-> [k |-> cols[i], v |-> Str(<<"x">>)]]

\* The column lists of a row: up to MaxMappingCols different headers.
MappingCols ==
  UNION { {cols \in [1..n -> MappingHeaders] : \A i, j \in 1..n : i # j => cols[i] # cols[j]} :
          n \in 1..MaxMappingCols }

\* The rows of a sheet: one row, or a row of one column followed by a row
\* that has one column more.
MappingData ==
  { <<RowWith(cols)>> : cols \in MappingCols } \cup
  { <<RowWith(<<cols[1]>>), RowWith(cols)>> :
      cols \in {c \in [1..2 -> MappingHeaders] : c[1] # c[2]} }

MappingInputs ==
  UNION { { [i \in 1..n |-> [fileName |-> i, data |-> rows[i]]] : rows \in [1..n -> MappingData] } :
          n \in 1..MaxSheets }

InitMapping ==
  /\ Start(<<>>, FALSE, "mapping", "direct")
  /\ NoMergeCall
  /\ \E sheets \in MappingInputs : args = <<sheets>>
  /\ ret = <<>>
  /\ calls = <<>>

\* const dataAnalysis = analyzeDataStructures(data)
\* const cleanColumnMapping = createCleanColumnMapping(data, dataAnalysis)
Mapping ==
  /\ pc = "mapping"
  /\ ret' = <<createCleanColumnMapping(args[1], analyzeDataStructures(args[1]))>>
  /\ pc' = "returned"
  /\ UNCHANGED <<callState, mergeCall, args, calls>>

NextMapping == Mapping

SpecMapping == InitMapping /\ [][NextMapping]_vars

\* The raw column names of the first rows, which the analysis compares, and
\* the raw column names of all rows.
RECURSIVE RowKeys(_)
RowKeys(rows) == IF rows = <<>> THEN {} ELSE Range(Keys(Head(rows))) \cup RowKeys(Tail(rows))

RECURSIVE AllRawColumns(_)
AllRawColumns(sheets) ==
  IF sheets = <<>> THEN {} ELSE RowKeys(Head(sheets).data) \cup AllRawColumns(Tail(sheets))

\* The columns that can be reached from the columns of set by steps between
\* columns judged similar.
RECURSIVE SimilarClosure(_, _)
SimilarClosure(set, universe) ==
  LET more == set \cup {c \in universe : \E d \in set : c # d /\ SimilarEnough(d, c)}
  IN IF more = set THEN set ELSE SimilarClosure(more, universe)

Equivalent(col1, col2, universe) == col2 \in SimilarClosure({col1}, universe)

\* C13: two raw column names have the same canonical name exactly when they
\* are judged equivalent, directly or through a chain of similar columns, and
\* every column of a similarity group has the canonical name of the group's
\* representative.
C13_SameNameIffEquivalent ==
  pc = "returned"
  => LET mapping == ret[1]
         compared == Range(HeaderOccurrences(args[1]))
         groups == analyzeDataStructures(args[1]).similarColumns
     IN /\ \A c, d \in compared :
             (Get(mapping, c) = Get(mapping, d)) <=> (c = d \/ Equivalent(c, d, compared))
        /\ \A g \in 1..Len(groups) : \A m \in 1..Len(groups[g].v) :
             Get(mapping, groups[g].v[m]) = Get(mapping, groups[g].k)

\* C14: every raw column name that occurs in any row of any source, the rows
\* after the first row of a sheet included, has a canonical name in the
\* mapping.
C14_MappingTotal ==
  pc = "returned"
  => \A c \in AllRawColumns(args[1]) : typeof(Get(ret[1], c)) = "string"

\* C25: a canonical name that is already assigned gets the suffix ' 2', then
\* ' 3' and so on: every name of the mapping is the canonical name of a
\* column as it is, or with a number from 2 on behind it.
C25_SuffixFromTwo ==
  pc = "returned"
  => \A e \in 1..Len(ret[1]) :
       \E col \in Range(HeaderOccurrences(args[1])) :
         LET standardName == createBusinessColumnNameOfWords(col)
         IN \/ ret[1][e].v.s = standardName
            \/ \E counter \in 2..(Len(ret[1]) + 1) :
                 ret[1][e].v.s = standardName \o <<" ">> \o NatToStr(counter)

-----------------------------------------------------------------------------
(* findDataRelationship and findSimilarColumns on two sheets                *)

RelationshipHeaders ==
  { <<"I","D">>, <<"I","d">>, <<"i","d">>, <<"C","u","s","t","o","m","e","r">>, <<"c","l","i","e","n","t">>, <<"C","o","s","t">>, <<"c","a","s","t">> }

RelationshipSheets ==
  { [fileName |-> 1, data |-> <<RowWith(cols)>>] :
      cols \in UNION { {c \in [1..n -> RelationshipHeaders] : \A i, j \in 1..n : i # j => c[i] # c[j]} :
                       n \in 1..MaxMappingCols } }

InitRelationship ==
  /\ Start(<<>>, FALSE, "relationship", "direct")
  /\ NoMergeCall
  /\ \E sheet1, sheet2 \in RelationshipSheets : args = <<sheet1, [sheet2 EXCEPT !.fileName = 2]>>
  /\ ret = <<>>
  /\ calls = <<>>

\* The relationships of the first sheet with the second, none or one, and the
\* groups of similar columns of the two sheets.
FindRelationship ==
  /\ pc = "relationship"
  /\ ret' = <<findDataRelationship(args[1], args[2]),
              findSimilarColumns(Distinct(HeaderOccurrences(args), <<>>))>>
  /\ pc' = "returned"
  /\ UNCHANGED <<callState, mergeCall, args, calls>>

NextRelationship == FindRelationship

SpecRelationship == InitRelationship /\ [][NextRelationship]_vars

\* C23: the scores that the grouping of columns and the detection of
\* relationships take of two column names are those of the names in lower
\* case, so that the letter case of a name does not change them.
C23_CaseInsensitive ==
  pc = "returned"
  => \A h1 \in Range(HeadersOf(args[1])), h2 \in Range(HeadersOf(args[2])) :
       LET lower == calculateSimilarity(toLowerCase(h1), toLowerCase(h2))
       IN /\ GroupingSimilarity(h1, h2) = lower
          /\ RelationshipSimilarity(h1, h2) = lower
          /\ IsCommonWith(h1, <<h2>>) <=> IsCommonWith(toLowerCase(h1), <<toLowerCase(h2)>>)

\* C24: the groups of similar columns are disjoint: no representative of a
\* group is a member of another group, and no column is a member of two
\* groups.
C24_GroupsDisjoint ==
  pc = "returned"
  => \A g, h \in 1..Len(ret[2]) :
       g # h => /\ ret[2][g].k \notin Range(ret[2][h].v)
                /\ Range(ret[2][g].v) \cap Range(ret[2][h].v) = {}

\* C30: every relationship that is found has at least one common column and
\* a confidence above 0 and not above 1.
C30_ConfidenceInRange ==
  pc = "returned"
  => \A r \in 1..Len(ret[1]) :
       /\ Len(ret[1][r].commonColumns) >= 1
       /\ FracGt(ret[1][r].confidence, Frac(0, 1))
       /\ ~FracGt(ret[1][r].confidence, Frac(1, 1))

-----------------------------------------------------------------------------
(* createExcelBuffer                                                        *)

\* Where an exception raised in the try block continues: in the catch block.
OnErrorUncaught == "thrown"

OnError == "catch"

\* A workbook of one sheet, as the library is asked to write it.
Workbook(sheetName, rows, header) == <<[name |-> sheetName, rows |-> rows, header |-> header]>>

\* [{ Message: 'No data available' }]
emptyData ==
  <<[t |-> "object", row |-> <<[k |-> <<"M","e","s","s","a","g","e">>, v |-> Str(<<"N","o"," ","d","a","t","a"," ","a","v","a","i","l","a","b","l","e">>)]>>]>>

\* [{ Error: 'Failed to generate Excel file', Message: error.message, Timestamp: ... }]
errorData(message, timestamp) ==
  <<[t |-> "object",
     row |-> <<[k |-> <<"E","r","r","o","r">>, v |-> Str(<<"F","a","i","l","e","d"," ","t","o"," ","g","e","n","e","r","a","t","e"," ","E","x","c","e","l"," ","f","i","l","e">>)],
               [k |-> <<"M","e","s","s","a","g","e">>, v |-> Str(message)],
               [k |-> <<"T","i","m","e","s","t","a","m","p">>, v |-> Str(timestamp)]>>]>>

\* The rows handed in: records, or null where a record should be.
ExcelRecord(row) == [t |-> "object", row |-> row]

NullRecord == [t |-> "null", row |-> <<>>]

ExcelData ==
  { [given |-> FALSE, rows |-> <<>>], [given |-> TRUE, rows |-> <<>>] } \cup
  { [given |-> TRUE, rows |-> rows] :
      rows \in UNION { [1..n -> {ExcelRecord(RowJo), ExcelRecord(RowNoId), ExcelRecord(RowZero), NullRecord}] :
                       n \in 1..MaxAnalyzeRows } }

ExcelHeaders ==
  { [given |-> FALSE, cols |-> <<>>], [given |-> TRUE, cols |-> <<>>],
    [given |-> TRUE, cols |-> <<<<"I","D">>, <<"N","a","m","e">>>>] }

\* new Date().toISOString()
Timestamps ==
  { <<"2","0","2","6","-","0","1","-","0","1","T","0","0",":","0","0",":","0","0",".","0","0","0","Z">>,
    <<"2","0","2","6","-","0","1","-","0","1","T","0","0",":","0","0",":","0","0",".","0","0","1","Z">> }

\* error.message of the errors the library raises, and of the TypeError of
\* Object.keys(null).
LibraryMessages == { <<"T","e","x","t"," ","l","e","n","g","t","h"," ","m","u","s","t"," ","n","o","t"," ","e","x","c","e","e","d"," ","3","2","7","6","7"," ","c","h","a","r","a","c","t","e","r","s">> }

TypeErrorMessage == <<"C","a","n","n","o","t"," ","c","o","n","v","e","r","t"," ","u","n","d","e","f","i","n","e","d"," ","o","r"," ","n","u","l","l"," ","t","o"," ","o","b","j","e","c","t">>

InitExcel ==
  /\ Start(<<>>, FALSE, "excel", "direct")
  /\ NoMergeCall
  /\ \E d \in ExcelData, h \in ExcelHeaders, rejects \in BOOLEAN : args = <<d, h, rejects>>
  /\ ret = <<>>
  /\ calls = <<>>

\* !data || data.length === 0
NoRecords(d) == ~d.given \/ Len(d.rows) = 0

\* headers && headers.length > 0
HeadersGiven(h) == h.given /\ Len(h.cols) > 0

\* Object.keys(data[0]) raises a TypeError when the first record is null.
KeysThrow(d, h) == ~HeadersGiven(h) /\ d.rows[1].t = "null"

\* No records: the placeholder sheet 'Empty'.
ExcelEmpty ==
  /\ pc = "excel"
  /\ NoRecords(args[1])
  /\ ret' = <<"buffer", Workbook("Empty", emptyData, <<>>)>>
  /\ pc' = "returned"
  /\ UNCHANGED <<callState, mergeCall, args, calls>>

\* The records are written to the sheet 'Master Workflow'.
ExcelWrite ==
  /\ pc = "excel"
  /\ ~NoRecords(args[1])
  /\ ~KeysThrow(args[1], args[2])
  /\ ~args[3]
  /\ LET effectiveHeaders == IF HeadersGiven(args[2]) THEN args[2].cols
                             ELSE Keys(args[1].rows[1].row)
     IN ret' = <<"buffer", Workbook("Master Workflow", args[1].rows, effectiveHeaders)>>
  /\ pc' = "returned"
  /\ UNCHANGED <<callState, mergeCall, args, calls>>

\* Object.keys(data[0]) or the library raises an error for the records.
ExcelThrows ==
  /\ pc = "excel"
  /\ ~NoRecords(args[1])
  /\ \/ /\ KeysThrow(args[1], args[2])
        /\ ret' = <<"error", TypeErrorMessage>>
     \/ /\ ~KeysThrow(args[1], args[2])
        /\ args[3]
        /\ \E message \in LibraryMessages : ret' = <<"error", message>>
  /\ pc' = OnError
  /\ UNCHANGED <<callState, mergeCall, args, calls>>

\* The catch block: the sheet 'Error' with the message of the error.
ExcelCatch ==
  /\ pc = "catch"
  /\ \E timestamp \in Timestamps :
       ret' = <<"buffer", Workbook("Error", errorData(ret[2], timestamp), <<>>)>>
  /\ pc' = "returned"
  /\ UNCHANGED <<callState, mergeCall, args, calls>>

NextExcel == ExcelEmpty \/ ExcelWrite \/ ExcelThrows \/ ExcelCatch

SpecExcel == InitExcel /\ [][NextExcel]_vars

-----------------------------------------------------------------------------
(* Two calls of analyzeExcelData in one process                             *)

\* Where call i keeps data, dataAnalysis and its other constants: in its own
\* activation, and with a slip in activation 0, the scope of the module.
SlotOfModule(i) == 0

Slot(i) == i

Callers == {1, 2}

NoFrame == [data |-> <<>>, dataAnalysis |-> NoAnalysis]

\* What one call is given, and what the LLM does for it.  ret is the order
\* in which the steps of the two calls ran.
CallInputs ==
  [data : {<<>>, <<SourceA, SourceB>>, <<Tracked>>, <<ZeroAl, ZeroBo>>},
   answer : Answers,
   throws : BOOLEAN]

\* The random part of the entity keys that call i generates.
RandomOf(i) == IF i = 1 THEN <<"1">> ELSE <<"2">>

InitCalls ==
  /\ \E key \in BOOLEAN : Start(<<>>, key, "calls", "none")
  /\ NoMergeCall
  /\ \E one, two \in CallInputs :
       /\ one.data # two.data
       /\ args = <<one, two>>
  /\ ret = <<>>
  /\ calls = [frame |-> [s \in {0} \cup Callers |-> NoFrame],
              pc |-> [i \in Callers |-> "start"],
              result |-> [i \in Callers |-> NoResult]]

\* What the rest of the call returns once the answer is there, or the
\* fallback when there is none.
Continue(frame, input, random, answered) ==
  IF answered /\ JsonParses(input.answer) /\ ~ValidationThrows(input.answer)
  THEN EnhancedAnalysis(input.answer,
                        IF Len(input.answer.mergedData) > 0 THEN <<>>
                        ELSE createHorizontalMerge(frame.data, random))
  ELSE createIntelligentFallbackAnalysis(frame.data, random)

\* The call starts without an API key: it returns the fallback at once.
CallNoKey(i) ==
  /\ pc = "calls"
  /\ calls.pc[i] = "start"
  /\ ~apiKey
  /\ LET frame == [data |-> args[i].data, dataAnalysis |-> NoAnalysis]
     IN calls' = [calls EXCEPT !.frame[Slot(i)] = frame,
                               !.pc[i] = "returned",
                               !.result[i] = Continue(frame, args[i], RandomOf(i), FALSE)]
  /\ ret' = Append(ret, i)
  /\ UNCHANGED <<callState, mergeCall, pc, args>>

\* The call runs up to await model.generateContent(prompt).
CallGenerate(i) ==
  /\ pc = "calls"
  /\ calls.pc[i] = "start"
  /\ apiKey
  /\ calls' = [calls EXCEPT !.frame[Slot(i)] = [data |-> args[i].data,
                                                dataAnalysis |-> analyzeDataStructures(args[i].data)],
                            !.pc[i] = "generate"]
  /\ ret' = Append(ret, i)
  /\ UNCHANGED <<callState, mergeCall, pc, args>>

\* generateContent resolves: the call runs up to await result.response.
CallResponse(i) ==
  /\ pc = "calls"
  /\ calls.pc[i] = "generate"
  /\ ~args[i].throws
  /\ calls' = [calls EXCEPT !.pc[i] = "response"]
  /\ ret' = Append(ret, i)
  /\ UNCHANGED <<callState, mergeCall, pc, args>>

\* generateContent rejects: the outer catch returns the fallback.
CallRejected(i) ==
  /\ pc = "calls"
  /\ calls.pc[i] = "generate"
  /\ args[i].throws
  /\ calls' = [calls EXCEPT !.pc[i] = "returned",
                            !.result[i] = Continue(calls.frame[Slot(i)], args[i], RandomOf(i), FALSE)]
  /\ ret' = Append(ret, i)
  /\ UNCHANGED <<callState, mergeCall, pc, args>>

\* The response is there: the call parses, validates and returns.
CallReturns(i) ==
  /\ pc = "calls"
  /\ calls.pc[i] = "response"
  /\ calls' = [calls EXCEPT !.pc[i] = "returned",
                            !.result[i] = Continue(calls.frame[Slot(i)], args[i], RandomOf(i), TRUE)]
  /\ ret' = Append(ret, i)
  /\ UNCHANGED <<callState, mergeCall, pc, args>>

NextCalls ==
  \E i \in Callers :
    CallNoKey(i) \/ CallGenerate(i) \/ CallResponse(i) \/ CallRejected(i) \/ CallReturns(i)

SpecCalls == InitCalls /\ [][NextCalls]_vars

\* What the call with this input returns when it is the only call.
Alone(input, random) ==
  Continue([data |-> input.data, dataAnalysis |-> analyzeDataStructures(input.data)],
           input, random, apiKey /\ ~input.throws)

\* C16: two calls on different inputs do not interfere, however their steps
\* are interleaved: each returns what it returns when it runs alone, and
\* nothing is written to the scope of the module.
C16_NoInterference ==
  pc = "calls"
  => /\ calls.frame[0] = NoFrame
     /\ \A i \in Callers : calls.pc[i] = "returned" => calls.result[i] = Alone(args[i], RandomOf(i))

\* C16 witness: the second call started and returned while the first call was
\* waiting for the LLM, and the first call has returned too.
C16_Witness ==
  /\ pc = "calls"
  /\ apiKey
  /\ calls.pc[1] = "returned"
  /\ calls.pc[2] = "returned"
  /\ ret = <<1, 2, 2, 2, 1, 1>>

-----------------------------------------------------------------------------
(* Claims about the entity merger, under Spec                               *)

\* The cleaned form of processed row i, and the identifiers of the rows
\* processed so far that are not empty, in the order of the rows.
CleanOf(i) == CleanRow(AllRows(data)[i])

RECURSIVE IdsOf(_)
IdsOf(records) ==
  IF records = <<>> THEN <<>>
  ELSE (IF Head(records).empty THEN <<>> ELSE <<Head(records).id>>) \o IdsOf(Tail(records))

\* The normalised value of the primary key in a record, when it has one.
HasKeyValue(record) == primaryKey.t = "string" /\ HasKey(record, primaryKey.s)

KeyValue(record) == String(Get(record, primaryKey.s))

\* C1: when a primary key P is detected, all processed rows whose normalised
\* value for P is not null and has the same string form are folded into one
\* entity, which holds every column of those rows, and no two entities carry
\* the same value of P.
C1_OneEntityPerKeyValue ==
  /\ \A i, j \in 1..Len(rowIds) :
       (HasKeyValue(CleanOf(i)) /\ HasKeyValue(CleanOf(j))
          /\ KeyValue(CleanOf(i)) = KeyValue(CleanOf(j)))
       => /\ rowIds[i].id = rowIds[j].id
          /\ MapHas(entityMap, rowIds[i].id)
          /\ \A c \in Range(Keys(CleanOf(j))) : HasKey(MapGet(entityMap, rowIds[i].id), c)
  /\ \A a, b \in 1..Len(entityMap) :
       (a # b /\ HasKeyValue(entityMap[a].ent) /\ HasKeyValue(entityMap[b].ent))
       => KeyValue(entityMap[a].ent) # KeyValue(entityMap[b].ent)

\* C6: after any prefix of the rows, every processed row that is not empty
\* has its identifier in the entity map and the entity holds every column of
\* the row; the entities are those of the rows that are not empty, so an
\* empty row creates none.
C6_NoRowDropped ==
  /\ \A i \in 1..Len(rowIds) :
       IF Len(CleanOf(i)) = 0 THEN rowIds[i].empty
       ELSE /\ ~rowIds[i].empty
            /\ MapHas(entityMap, rowIds[i].id)
            /\ \A c \in Range(Keys(CleanOf(i))) : HasKey(MapGet(entityMap, rowIds[i].id), c)
  /\ {entityMap[a].id : a \in 1..Len(entityMap)} = Range(IdsOf(rowIds))
  /\ Len(rowIds) = rowIdx

\* C6 witness: a row without a usable primary-key value was kept under a
\* composite key, an empty row was skipped, and the loop is over.
C6_Witness ==
  /\ pc = "done"
  /\ primaryKey # Null
  /\ \E i \in 1..Len(rowIds) : ~rowIds[i].empty /\ ~rowIds[i].byKey
  /\ \E i \in 1..Len(rowIds) : rowIds[i].empty

\* C7: the entities are in the order in which their identifiers were first
\* seen, merging a later row does not move an entity, and the output is the
\* entities in that order.
C7_FirstSeenOrder ==
  /\ [a \in 1..Len(entityMap) |-> entityMap[a].id] = Distinct(IdsOf(rowIds), <<>>)
  /\ pc = "done" /\ cont = "fallback" => result.mergedData = MapValues(entityMap)

\* C7 witness: a row was merged into the first entity after a second entity
\* had been created, and the output has the two in first-seen order.
C7_Witness ==
  /\ pc = "done"
  /\ Len(result.mergedData) = 2
  /\ Len(rowIds) = 3
  /\ ~rowIds[1].empty /\ ~rowIds[2].empty /\ ~rowIds[3].empty
  /\ rowIds[1].id = rowIds[3].id
  /\ rowIds[1].id # rowIds[2].id
  /\ result.mergedData[1] # CleanOf(1)

\* C8: two runs of the deterministic consolidation on the same input return
\* the same result: records, their order, headers, primary key and summary.
C8_Deterministic ==
  /\ pc = "done" /\ cont = "fallback" => result = rerunResult
  /\ [a \in 1..Len(entityMap) |-> entityMap[a].id] = [a \in 1..Len(rerun) |-> rerun[a].id]

\* C8 witness: both runs are over for an input in which a row was identified
\* by a composite key and another by the primary key.
C8_Witness ==
  /\ pc = "done"
  /\ result.origin = "fallback"
  /\ \E i \in 1..Len(rowIds) : ~rowIds[i].empty /\ ~rowIds[i].byKey
  /\ \E i \in 1..Len(rowIds) : rowIds[i].byKey
  /\ Len(result.mergedData) >= 2

\* C9: for an empty sequence of sources the consolidation returns, without
\* raising, no records, no headers and the primary key null.
C9_EmptyInput ==
  (pc = "done" /\ cont = "fallback" /\ data = <<>>)
  => /\ result.origin = "fallback"
     /\ result.mergedData = <<>>
     /\ result.consolidatedHeaders = <<>>
     /\ result.primaryKey = Null

\* C9 witness: the call on the empty sequence has returned.
C9_Witness == pc = "done" /\ data = <<>> /\ result.origin = "fallback"

\* C17: when a primary key is detected and the cleaned row has a value for
\* it that is not null, whatever the value (the number 0 and the boolean
\* false included), the identifier of the row is the string form of that
\* value and no composite key is made.
C17_KeyValueIsIdentifier ==
  \A i \in 1..Len(rowIds) :
    (~rowIds[i].empty /\ HasKeyValue(CleanOf(i)))
    => /\ rowIds[i].byKey
       /\ rowIds[i].id = KeyValue(CleanOf(i))

\* The priority fields that the record holds, in the order of priority, and
\* the values of the record as strings.
PresentFields(record) ==
  LET Present(field) == HasKey(record, field) IN SelectSeq(fieldPriority, Present)

ValuesOf(record) == [j \in 1..Len(record) |-> String(record[j].v)]

\* C18 as stated: a row identified by a composite key has as identifier the
\* first value it holds among Name, ID, Code, Title, Email, Phone, and without
\* any of them its first values, up to three, joined by '|'.
C18_FirstPresentValue ==
  \A i \in 1..Len(rowIds) :
    (~rowIds[i].empty /\ ~rowIds[i].byKey)
    => LET record == CleanOf(i)
           present == PresentFields(record)
       IN rowIds[i].id = IF present # <<>> THEN String(Get(record, present[1]))
                         ELSE join(SubSeq(ValuesOf(record), 1, IF Len(record) < 3 THEN Len(record) ELSE 3),
                                   <<"|">>)

\* C18: a row identified by a composite key has as identifier the values it
\* holds among Name, ID, Code, Title, Email, Phone, all of them, in that order
\* and joined by '|', and without any of them its first values, up to three,
\* joined by '|'.
C18_CompositeKey ==
  \A i \in 1..Len(rowIds) :
    (~rowIds[i].empty /\ ~rowIds[i].byKey)
    => LET record == CleanOf(i)
           present == PresentFields(record)
       IN rowIds[i].id =
            IF present # <<>>
            THEN join([j \in 1..Len(present) |-> String(Get(record, present[j]))], <<"|">>)
            ELSE join(SubSeq(ValuesOf(record), 1, IF Len(record) < 3 THEN Len(record) ELSE 3),
                      <<"|">>)

\* C18 witness: a row that holds two of the priority fields and a row that
\* holds none of them were identified by composite keys.
C18_Witness ==
  /\ \E i \in 1..Len(rowIds) :
       ~rowIds[i].empty /\ ~rowIds[i].byKey /\ Len(PresentFields(CleanOf(i))) >= 2
  /\ \E i \in 1..Len(rowIds) :
       ~rowIds[i].empty /\ ~rowIds[i].byKey /\ PresentFields(CleanOf(i)) = <<>>

\* C19: the headers of the result are the keys of the merged records, each
\* once and in the order of first appearance: every key of every record is a
\* header, and every header is a key of some record.
C19_HeadersAreUnionOfKeys ==
  (pc = "done" /\ result.origin = "fallback")
  => LET headers == result.consolidatedHeaders
         records == result.mergedData
     IN /\ \A r \in 1..Len(records) : \A key \in Range(Keys(records[r])) :
             Cardinality({h \in 1..Len(headers) : headers[h] = key}) = 1
        /\ \A h \in 1..Len(headers) : \E r \in 1..Len(records) : HasKey(records[r], headers[h])
        /\ headers = Distinct(AllKeys(records), <<>>)

\* C20: the strategy that the result reports is one of merge, lookup, union
\* and aggregate: merge when the common columns are more than half as many
\* as the sources, else lookup when a relationship has a confidence above
\* 0.7, else union when there are more than two common columns, else
\* aggregate.
C20_StrategyByRule ==
  (pc = "done" /\ result.origin = "fallback")
  => /\ result.consolidationStrategy \in {"merge", "lookup", "union", "aggregate"}
     /\ result.consolidationStrategy
          = determineConsolidationStrategy(analyzeDataStructures(data))

\* The headers of the first rows with the sheet they stand in, in the order
\* of the sources, and for a canonical column the occurrences that it names.
RECURSIVE Occurrences(_)
Occurrences(sheets) ==
  IF sheets = <<>> THEN <<>>
  ELSE (IF Len(Head(sheets).data) = 0 THEN <<>>
        ELSE [h \in 1..Len(HeadersOf(Head(sheets))) |->
                [sheet |-> Head(sheets), header |-> HeadersOf(Head(sheets))[h]]])
       \o Occurrences(Tail(sheets))

\* What one occurrence says of its canonical column: the naming score of the
\* header and the uniqueness of its values in the sheet.
UniquenessOf(o) ==
  LET vals == NonEmptyValues(ColumnOf(o.sheet, o.header))
  IN IF Len(vals) = 0 THEN Frac(0, 1) ELSE Frac(Cardinality(Range(vals)), Len(vals))

Seen ==
  LET occ == Occurrences(data)
  IN [o \in 1..Len(occ) |->
        [column |-> createBusinessColumnName(occ[o].header),
         naming |-> SmartNameScore(toLowerCase(occ[o].header)),
         uniqueness |-> UniquenessOf(occ[o])]]

\* The canonical columns in the order in which the sources bring them up,
\* each with its naming score and its uniqueness, the highest over the
\* sources, and the two combined, as a fraction.
Scored ==
  LET seen == Seen
      columns == Distinct([o \in 1..Len(seen) |-> seen[o].column], <<>>)
      Of(c) == {o \in 1..Len(seen) : seen[o].column = columns[c]}
      NamingScore(c) == CHOOSE n \in {seen[o].naming : o \in Of(c)} :
                          \A o \in Of(c) : seen[o].naming <= n
      Uniqueness(c) == CHOOSE u \in {seen[o].uniqueness : o \in Of(c)} :
                         \A o \in Of(c) : ~FracGt(seen[o].uniqueness, u)
  IN [c \in 1..Len(columns) |->
        [column |-> columns[c],
         uniqueness |-> Uniqueness(c),
         combined |-> Frac(NamingScore(c) * Uniqueness(c).den + 20 * Uniqueness(c).num,
                           Uniqueness(c).den)]]

Eligible(scored) == {c \in 1..Len(scored) : FracGt(scored[c].uniqueness, Frac(7, 10))}

C22_NoEmptyFields ==
  \A e \in 1..Len(entityMap) : \A f \in 1..Len(entityMap[e].ent) :
    LET value == entityMap[e].ent[f].v
    IN /\ ~IsEmptyValue(value)
       /\ value.t = "string" => trim(value.s) # <<>>

\* C27: the primary key that the result reports is the key by which the
\* entities were identified: both null, or the same canonical column name.
C27_ReportedKeyIsUsedKey ==
  (pc = "done" /\ result.origin = "fallback") => result.primaryKey = primaryKey

\* C28: no identifier is the primary-key value of one row and the composite
\* key of another: a row identified by its key value and a row identified by
\* a composite key are never folded into one entity.
C28_NamespacesApart ==
  \A i, j \in 1..Len(rowIds) :
    (~rowIds[i].empty /\ ~rowIds[j].empty /\ rowIds[i].byKey /\ ~rowIds[j].byKey)
    => rowIds[i].id # rowIds[j].id

\* C29: in every result of analyzeExcelData, of the deterministic engine or
\* of the LLM, every header is a key of one of the records, and there are
\* headers unless there are no records.
C29_HeadersMatchRecords ==
  pc = "done"
  => /\ \A h \in 1..Len(result.consolidatedHeaders) :
          \E r \in 1..Len(result.mergedData) :
            HasKey(result.mergedData[r], result.consolidatedHeaders[h])
     /\ result.consolidatedHeaders = <<>> => result.mergedData = <<>>

-----------------------------------------------------------------------------
(* The end-to-end example and the synonym rule, under Spec                  *)

\* The entity of the output with identifier id.
EntityOf(id) == MapGet(entityMap, id)

\* C5: for Source A and Source B the consolidation detects an ID-like
\* primary key, gives CustID and CustomerID one canonical column name, which
\* the similarity groups relate, and returns three entities with the
\* identifiers 1, 2 and 3: entity 1 holds Name "Acme" and Revenue 1200 as a
\* number, entity 2 has no Revenue and entity 3 has no Name.
C5_EndToEnd ==
  (pc = "done" /\ data = <<SourceA, SourceB>>)
  => /\ primaryKey.t = "string"
     /\ includes(toLowerCase(primaryKey.s), <<"i","d">>)
     /\ createBusinessColumnName(<<"C","u","s","t","I","D">>) = createBusinessColumnName(<<"C","u","s","t","o","m","e","r","I","D">>)
     /\ \E g \in 1..Len(dataAnalysis.similarColumns) :
          /\ dataAnalysis.similarColumns[g].k = <<"C","u","s","t","I","D">>
          /\ <<"C","u","s","t","o","m","e","r","I","D">> \in Range(dataAnalysis.similarColumns[g].v)
     /\ [a \in 1..Len(entityMap) |-> entityMap[a].id] = << <<"1">>, <<"2">>, <<"3">> >>
     /\ Len(result.mergedData) = 3
     /\ Get(EntityOf(<<"1">>), <<"N","a","m","e">>) = Str(<<"A","c","m","e">>)
     /\ Get(EntityOf(<<"1">>), <<"R","e","v","e","n","u","e">>) = Num(1200)
     /\ ~HasKey(EntityOf(<<"2">>), <<"R","e","v","e","n","u","e">>)
     /\ ~HasKey(EntityOf(<<"3">>), <<"N","a","m","e">>)

\* C10: the similarity of Customer Name and Client Name is greater than 0.6,
\* and findSimilarColumns puts the two columns into one group.
C10_SynonymShortCircuit ==
  (pc \in {"merge", "done"} /\ data = <<CustomerNames, ClientNames>>)
  => /\ FracGt(calculateSimilarity(toLowerCase(CustomerName), toLowerCase(ClientName)),
               Frac(6, 10))
     /\ \E g \in 1..Len(dataAnalysis.similarColumns) :
          /\ dataAnalysis.similarColumns[g].k = CustomerName
          /\ ClientName \in Range(dataAnalysis.similarColumns[g].v)

-----------------------------------------------------------------------------
(* Claims about analyzeExcelData, under SpecAnalyze                         *)

\* C3: when the API key is missing, the LLM call throws, or the answer is no
\* JSON or makes the validator throw, analyzeExcelData returns exactly what
\* createIntelligentFallbackAnalysis returns for the same input.
C3_FallbackOnFailure ==
  (pc = "done" /\ (~apiKey \/ llm.kind \in {"throw", "text", "null"}))
  => \E random \in Randoms : result = createIntelligentFallbackAnalysis(data, random)

\* C3 witness: with the key set, the LLM answered a text that is no JSON and
\* the call returned the fallback result with its records.
C3_Witness ==
  /\ pc = "done"
  /\ apiKey
  /\ llm.kind = "text"
  /\ result.origin = "fallback"
  /\ Len(result.mergedData) >= 2

\* A key that resembles source-tracking metadata in any spelling: its letters
\* in lower case are sourcefile, sourcesheet or originalrow.
ResemblesSourceTracking(key) ==
  toLowerCase(FilterChars(RemoveSpecial(key), {" "}))
    \in {<<"s","o","u","r","c","e","f","i","l","e">>, <<"s","o","u","r","c","e","s","h","e","e","t">>, <<"o","r","i","g","i","n","a","l","r","o","w">>}

\* C4: no record of the mergedData of a returned result, the records accepted
\* from the LLM included, has a key that resembles source-tracking metadata.
C4_NoSourceTracking ==
  pc = "done"
  => \A r \in 1..Len(result.mergedData) :
       \A key \in Range(Keys(result.mergedData[r])) : ~ResemblesSourceTracking(key)

-----------------------------------------------------------------------------
(* Claims about mergeEntityAttributes, under SpecMerge                      *)

\* What the conflict rule of the claim gives for the value e of the entity
\* and the value n of the new record.
Expected(e, n) ==
  IF IsEmptyValue(e) THEN n
  ELSE IF StrictEq(e, n) THEN e
  ELSE IF e.t = "string" /\ n.t = "string" THEN (IF Len(n.s) > Len(e.s) THEN n ELSE e)
  ELSE IF n.t = "number" THEN n
  ELSE e

\* C2: after newRow is merged into existing, every key of newRow holds
\* newRow's value if existing lacks the key or holds null or empty; if the
\* values differ, the strictly longer string when both are strings, newRow's
\* value when it is a number that is not NaN, and else the value of existing;
\* the keys of existing that newRow lacks are unchanged, and there are no
\* other keys.
C2_ConflictResolution ==
  pc = "merged"
  => /\ \A key \in Range(Keys(newRow)) :
          Get(merged, key) = Expected(Get(existing, key), Get(newRow, key))
     /\ \A key \in Range(Keys(existing)) \ Range(Keys(newRow)) :
          Get(merged, key) = Get(existing, key)
     /\ Range(Keys(merged)) = Range(Keys(existing)) \cup Range(Keys(newRow))
     /\ Len(merged) = Cardinality(Range(Keys(merged)))

\* C2 witness: {Name: "Jo", Score: "5"} then {Name: "Jonathan", Score: 7}
\* gave Name "Jonathan" and Score 7.
C2_Witness ==
  /\ pc = "merged"
  /\ Get(existing, <<"N","a","m","e">>) = Str(<<"J","o">>)
  /\ Get(newRow, <<"N","a","m","e">>) = Str(<<"J","o","n","a","t","h","a","n">>)
  /\ Get(existing, <<"S","c","o","r","e">>) = Str(<<"5">>)
  /\ Get(newRow, <<"S","c","o","r","e">>) = Num(7)
  /\ Get(merged, <<"N","a","m","e">>) = Str(<<"J","o","n","a","t","h","a","n">>)
  /\ Get(merged, <<"S","c","o","r","e">>) = Num(7)

=============================================================================
